---- MODULE Spec2Model ----
(***************************************************************************)
(* Trading pipeline of IBKR-API-Go-Python (python/src):                    *)
(*   - utils/error_handler.py   ErrorHandler (error counters, recovery,    *)
(*                              per-component circuit breakers)            *)
(*   - trading/risk_manager.py  RiskManager (admission, recording, closing)*)
(*   - trading/trade_executor.py TradeExecutor (execute-or-queue, drain)   *)
(*   - app/trader.py            Trader (signal queue and its worker)       *)
(*   - utils/time_utils.py      convert_to_eastern, is_market_open         *)
(* The specifications of the module:                                       *)
(*   SpecEH      the ErrorHandler                                          *)
(*   Spec        the Trader pipeline of the base deployment                *)
(*   SpecSites   the pipeline of every explored deployment (configuration, *)
(*               broker, host)                                             *)
(*   SpecRisk    one session of the pipeline under the risk configurations *)
(*   SpecRecord  record_trade statement by statement, with a status reader *)
(*   SpecWorkers Trader.start/stop and the worker threads                  *)
(*   SpecQueue   the TradeExecutor handed its trades directly              *)
(*   SpecSizing  the position sizing over a range of spread costs          *)
(*   SpecExit    the exit strategy applied to one open position           *)
(*   SpecAlerts  SpecRisk with an alert system attached                    *)
(*   SpecFilter  the spread filters and the choice of the best spread      *)
(*   SpecConnect the broker connection attempts (with fairness)            *)
(*   SpecLargeAccount SpecRisk with an account that admits a second trade  *)
(*               of one sector                                             *)
(*   SpecCancel  IBKRIBInsyncApi.cancel_order and the order's callbacks    *)
(*   SpecStops   the stop and target recorded with a trade                 *)
(*   SpecCycle   Trader.run_scan_cycle next to the worker threads          *)
(*   SpecSim     the simulated broker's orders, fills and cancellations    *)
(***************************************************************************)
EXTENDS Integers, Sequences, FiniteSets, TLC

VARIABLES
    \* ---- ErrorHandler (utils/error_handler.py) ----
    error_counts,       \* error_key -> count (defaultdict(int); 0 = no entry)
    recovery_attempts,  \* error_key -> attempts (defaultdict(int))
    last_errors,        \* error_key -> time of the last error, NoTime = no entry
    circuit_breakers,   \* component -> [tripped, trip_time, reset_time]
    eh_now,             \* wall clock read by datetime.now(), in minutes
    eh_ret,             \* return value of the last ErrorHandler call
    \* ---- Trader / RiskManager / TradeExecutor ----
    signal_queue,       \* Trader.signal_queue (FIFO of signals)
    daily_trades,       \* RiskManager.daily_trades: date -> list of trade records
    active_positions,   \* RiskManager.active_positions: symbol -> position
    sector_exposure,    \* RiskManager.sector_exposure: sector -> notional
    industry_exposure,  \* RiskManager.industry_exposure: industry -> notional
    queued_trades,      \* TradeExecutor.queued_trades
    successful_trades,  \* TradeExecutor.execution_metrics["successful_trades"]
    now,                \* true exchange (US/Eastern) time, minutes since Monday 00:00
    host_tz,            \* UTC offset (minutes) of the host's local time zone
    ALLOW_LATE_DAY_ENTRY, \* Config.ALLOW_LATE_DAY_ENTRY
    MAX_POSITIONS,      \* Config.MAX_POSITIONS
    MAX_PORTFOLIO_HEAT, \* Config.MAX_PORTFOLIO_HEAT (percent)
    has_fundamentals,   \* the broker answers get_symbol_fundamentals (else it raises)
    available_funds,    \* available_funds of the broker's account summary
    net_liquidation,    \* net_liquidation of the broker's account summary
    signals_made,       \* number of signals the scanner has produced so far
    last_drain,         \* statuses the retries of this step's drain pass returned
    tr_ret,             \* what process_signal returned in this step, if it ran
    \* ---- threads ----
    rt_pc,              \* where the thread inside record_trade stands
    rt_trade,           \* the arguments of the record_trade call in progress
    metrics,            \* what the last Trader.get_status() read from the RiskManager
    processing,         \* Trader.processing
    worker_pc,          \* thread -> where it stands in _process_signals_thread
    held,               \* thread -> the signal it took from signal_queue
    processed,          \* ids of the signals in the order process_signal returned
    \* ---- position sizing ----
    ps_cost,            \* option_spread.cost handed to calculate_position_size
    ps_size,            \* the position size it returned
    \* ---- ExitStrategyManager (trading/exit_strategy.py) ----
    open_position,      \* the position dictionary handed to the manager
    USE_R_MULTIPLE_EXIT, \* Config.USE_R_MULTIPLE_EXIT
    USE_TRAILING_STOP,  \* Config.USE_TRAILING_STOP
    exit_ret,           \* what the last should_exit_position call returned
    \* ---- AlertSystem (utils/alert_system.py) ----
    alert_system,       \* RiskManager.alert_system is set (else it is None)
    sent_alerts,        \* the alerts the last can_enter_trade call sent
    \* ---- OptionSpreadFilter / SpreadManager (options/) ----
    candidates,         \* the spread dictionaries handed to the filter
    underlying,         \* the underlying_data handed with them
    spread_ret,         \* what the last filter_spreads / get_best_spread call returned
    \* ---- IBKRIBInsyncApi.connect (brokers/ibkr_ib_insync.py) ----
    conn_pc,            \* where the thread inside connect() stands
    attempt,            \* the loop variable of connect()
    failures,           \* ib.connect calls of this connect() that raised
    elapsed,            \* seconds this connect() spent in ib.connect and sleep
    connected,          \* IBKRIBInsyncApi.connected
    conn_ret,           \* what connect() returned
    ib_connected,       \* ib.isConnected()
    \* ---- IBKRIBInsyncApi.cancel_order and the event handlers ----
    cancel_pc,          \* where the thread inside cancel_order() stands
    cancel_tries,       \* passes of the confirmation loop of cancel_order() made
    lock_owner,         \* who holds IBKRIBInsyncApi.lock (a threading.Lock)
    trade_status,       \* trade.orderStatus.status of the order
    order_info,         \* self.orders[order_id]["status"]
    cancel_ret,         \* what cancel_order() returned
    in_flight,          \* events ib_insync has received and not yet dispatched
    \* ---- IBKRApi, the simulated broker (brokers/ibkr_api.py) ----
    sim_orders,         \* IBKRApi.orders: order id -> order record
    sim_quantity,       \* IBKRApi.positions[symbol]["quantity"]
    fill_pc,            \* order id -> where its _simulate_order_fill thread stands
    cancel_true,        \* ids of the orders for which cancel_order returned True
    \* ---- Trader.run_scan_cycle ----
    cycle_pc            \* where the thread inside run_scan_cycle() stands

ehvars == <<error_counts, recovery_attempts, last_errors, circuit_breakers,
            eh_now, eh_ret>>
trvars == <<signal_queue, daily_trades, active_positions, sector_exposure,
            industry_exposure, queued_trades, successful_trades, now, host_tz,
            ALLOW_LATE_DAY_ENTRY, MAX_POSITIONS, MAX_PORTFOLIO_HEAT, has_fundamentals, net_liquidation,
            available_funds, signals_made, last_drain, tr_ret>>
rtvars == <<rt_pc, rt_trade, metrics>>
wkvars == <<processing, worker_pc, held, processed>>
psvars == <<ps_cost, ps_size>>
exvars == <<open_position, USE_R_MULTIPLE_EXIT, USE_TRAILING_STOP, exit_ret>>
alvars == <<alert_system, sent_alerts>>
\* the collaborators the Trader pipeline does not call
sfvars == <<candidates, underlying, spread_ret>>
cnvars == <<conn_pc, attempt, failures, elapsed, connected, conn_ret, ib_connected>>
ibvars == <<cancel_pc, cancel_tries, lock_owner, trade_status, order_info, cancel_ret,
            in_flight>>
simvars == <<sim_orders, sim_quantity, fill_pc, cancel_true>>
brvars == <<ibvars, simvars, cycle_pc>>
quietvars == <<exvars, sfvars, cnvars, brvars>>
libvars == <<quietvars, alvars>>
auxvars == <<rtvars, wkvars, psvars, libvars>>
vars == <<ehvars, trvars, auxvars>>

NoneVal == "None"
\* None in a field that otherwise holds a time
NoTime == 0 - 1
\* no process_signal call returned in this step
NoRet == [status |-> NoneVal, result |-> <<"", 0>>]

(***************************************************************************)
(* Bounds of the exploration                                               *)
(***************************************************************************)
MaxErrors == 6       \* errors reported to the ErrorHandler and not yet cleared
MaxNow == 60         \* last wall-clock minute explored for the ErrorHandler
MaxSignals == 4      \* signals the scanner produces
MaxQueue == 2        \* longest TradeExecutor queue explored
MaxThreads == 2      \* worker threads Trader.start() creates
MaxCostSteps == 80   \* spread costs sized: 50, 100, ... up to 50 * MaxCostSteps
MaxCandidates == 3   \* spreads in the list handed to the filter
MaxPriceSteps == 13  \* prices observed for a position: 20, 40, ... up to 20 * MaxPriceSteps
MaxEvents == 2       \* events ib_insync holds undispatched
MaxOrders == 3       \* orders placed with the simulated broker

(***************************************************************************)
(* ErrorHandler configuration (defaults of config.get in error_handler.py) *)
(***************************************************************************)
ERROR_THRESHOLD == 3
CIRCUIT_BREAKER_THRESHOLD == 5
MAX_RECOVERY_ATTEMPTS == 3
CIRCUIT_BREAKER_MINUTES == 30

\* components that get a circuit breaker in __init__
critical_components ==
    {"IBKR_API", "DATA_PROVIDER", "OPTION_SELECTOR", "TRADE_EXECUTOR", "RISK_MANAGER"}

\* components and error types the explored calls are made with
Components == {"IBKR_API", "SCANNER"}
ErrorTypes == {"CONNECTION_ERROR", "REQUEST_ERROR"}
ErrorKeys == {<<"IBKR_API", "CONNECTION_ERROR">>, <<"IBKR_API", "REQUEST_ERROR">>,
              <<"SCANNER", "CONNECTION_ERROR">>}
TickSteps == {CIRCUIT_BREAKER_MINUTES}
OlderThan == {CIRCUIT_BREAKER_MINUTES}

\* error_key = f"{component}:{error_type}"
error_key(component, error_type) == <<component, error_type>>

is_critical_error(error_type) ==
    error_type \in {"CONNECTION_ERROR", "AUTHENTICATION_ERROR", "ORDER_EXECUTION_ERROR",
                    "DATA_INTEGRITY_ERROR", "ACCOUNT_ERROR", "POSITION_ERROR",
                    "MARKET_ACCESS_ERROR"}

\* handle_error, lines 99-102: the breaker of the component is tripped
breaker_active_Never(component) == FALSE
breaker_active(component) ==
    component \in DOMAIN circuit_breakers /\ circuit_breakers[component].tripped

\* handle_error, lines 126-128: critical and repeated
should_trip_AnyKind(error_type, count) == count >= CIRCUIT_BREAKER_THRESHOLD
should_trip_OffByOne(error_type, count) ==
    is_critical_error(error_type) /\ count > CIRCUIT_BREAKER_THRESHOLD
should_trip(error_type, count) ==
    is_critical_error(error_type) /\ count >= CIRCUIT_BREAKER_THRESHOLD

\* _trip_circuit_breaker: no effect for a component without a breaker
trip_circuit_breaker(component) ==
    IF component \notin DOMAIN circuit_breakers
    THEN circuit_breakers
    ELSE [circuit_breakers EXCEPT ![component] =
            [tripped |-> TRUE, trip_time |-> eh_now,
             reset_time |-> eh_now + CIRCUIT_BREAKER_MINUTES]]

\* outcome of the component-specific recovery strategy; has_ctx says whether
\* the context carries what the strategy needs (client, request_func/params)
recovery_outcome(component, error_type, has_ctx) ==
    IF component = "IBKR_API"
    THEN IF error_type = "CONNECTION_ERROR"
         THEN IF has_ctx THEN <<TRUE, "Reconnected to API">>
                         ELSE <<FALSE, "No API client in context">>
         ELSE IF error_type = "AUTHENTICATION_ERROR"
         THEN <<FALSE, "Authentication error requires manual intervention">>
         ELSE IF error_type = "REQUEST_ERROR"
         THEN IF has_ctx THEN <<TRUE, "Request retried successfully">>
                         ELSE <<FALSE, "Insufficient context for retry">>
         ELSE <<FALSE, "No recovery strategy">>
    ELSE <<FALSE, "Generic recovery attempted but likely insufficient">>

\* handle_error, lines 133-135
may_recover_OneMore(attempts) == attempts <= MAX_RECOVERY_ATTEMPTS
may_recover(attempts) == attempts < MAX_RECOVERY_ATTEMPTS

\* get_error_summary()["total_errors"]
total_errors ==
    error_counts[<<"IBKR_API", "CONNECTION_ERROR">>]
    + error_counts[<<"IBKR_API", "REQUEST_ERROR">>]
    + error_counts[<<"SCANNER", "CONNECTION_ERROR">>]

EhRet(op, component, ok, msg) ==
    [op |-> op, component |-> component, ok |-> ok, msg |-> msg]

\* ErrorHandler.handle_error(component, error_type, error_msg, context)
handle_error(component, error_type, has_ctx) ==
    LET key == error_key(component, error_type)
        count == error_counts[key] + 1
    IN  /\ key \in ErrorKeys
        /\ total_errors < MaxErrors
        /\ error_counts' = [error_counts EXCEPT ![key] = count]
        /\ last_errors' = [last_errors EXCEPT ![key] = eh_now]
        /\ eh_now' = eh_now
        /\ IF breaker_active(component)
           THEN /\ eh_ret' = EhRet("handle_error", component, FALSE,
                                   "Circuit breaker active")
                /\ UNCHANGED <<recovery_attempts, circuit_breakers>>
           ELSE IF /\ is_critical_error(error_type) \/ count >= ERROR_THRESHOLD
                   /\ should_trip(error_type, count)
           THEN /\ circuit_breakers' = trip_circuit_breaker(component)
                /\ eh_ret' = EhRet("handle_error", component, FALSE,
                                   "Circuit breaker tripped")
                /\ UNCHANGED recovery_attempts
           ELSE IF may_recover(recovery_attempts[key])
           THEN \* attempt_recovery
                /\ recovery_attempts' =
                       [recovery_attempts EXCEPT ![key] = recovery_attempts[key] + 1]
                /\ eh_ret' = EhRet("handle_error", component,
                                   recovery_outcome(component, error_type, has_ctx)[1],
                                   recovery_outcome(component, error_type, has_ctx)[2])
                /\ UNCHANGED circuit_breakers
           ELSE /\ eh_ret' = EhRet("handle_error", component, FALSE,
                                   "Max recovery attempts reached")
                /\ UNCHANGED <<recovery_attempts, circuit_breakers>>
        /\ UNCHANGED <<trvars, auxvars>>

\* check_circuit_breakers, line 493
reset_due_Early(breaker) == breaker.tripped
reset_due(breaker) == breaker.tripped /\ eh_now >= breaker.reset_time

\* ErrorHandler.check_circuit_breakers()
check_circuit_breakers ==
    /\ circuit_breakers' =
         [c \in DOMAIN circuit_breakers |->
            IF reset_due(circuit_breakers[c])
            THEN [tripped |-> FALSE, trip_time |-> NoTime, reset_time |-> NoTime]
            ELSE circuit_breakers[c]]
    /\ eh_ret' = EhRet("check_circuit_breakers", NoneVal,
                       \E c \in DOMAIN circuit_breakers :
                           circuit_breakers[c].tripped /\ ~circuit_breakers'[c].tripped,
                       "")
    /\ UNCHANGED <<error_counts, recovery_attempts, last_errors, eh_now>>
    /\ UNCHANGED <<trvars, auxvars>>

\* ErrorHandler.can_use_component(component)
can_use_component(component) ==
    /\ eh_ret' = EhRet("can_use_component", component,
                       IF component \notin DOMAIN circuit_breakers
                       THEN TRUE
                       ELSE ~circuit_breakers[component].tripped,
                       "")
    /\ UNCHANGED <<error_counts, recovery_attempts, last_errors, circuit_breakers, eh_now>>
    /\ UNCHANGED <<trvars, auxvars>>

\* ErrorHandler.clear_error_counts(older_than_minutes)
clear_error_counts(older_than_minutes) ==
    LET threshold_time == eh_now - older_than_minutes
        stale == {k \in ErrorKeys : /\ error_counts[k] > 0
                                     /\ last_errors[k] # NoTime
                                     /\ last_errors[k] < threshold_time}
    IN  /\ error_counts' = [k \in ErrorKeys |-> IF k \in stale THEN 0 ELSE error_counts[k]]
        /\ last_errors' = [k \in ErrorKeys |-> IF k \in stale THEN NoTime ELSE last_errors[k]]
        /\ recovery_attempts' =
             [k \in ErrorKeys |-> IF k \in stale THEN 0 ELSE recovery_attempts[k]]
        /\ eh_ret' = EhRet("clear_error_counts", NoneVal, stale # {}, "")
        /\ UNCHANGED <<circuit_breakers, eh_now>>
        /\ UNCHANGED <<trvars, auxvars>>

\* the wall clock moves on between calls
EhTick(d) ==
    /\ eh_now + d <= MaxNow
    /\ eh_now' = eh_now + d
    /\ UNCHANGED <<error_counts, recovery_attempts, last_errors, circuit_breakers,
                   eh_ret>>
    /\ UNCHANGED <<trvars, auxvars>>

(***************************************************************************)
(* Trader configuration (app/config.py).  Fractions are kept as percent.   *)
(* MAX_POSITIONS, MAX_PORTFOLIO_HEAT and ALLOW_LATE_DAY_ENTRY are          *)
(* variables, fixed by the environment of a run.                           *)
(***************************************************************************)
MAX_DAILY_TRADES == 3
RISK_PER_TRADE_PCT == 2
MAX_SECTOR_EXPOSURE_PCT == 30
MAX_INDUSTRY_EXPOSURE_PCT == 20
MAX_DIRECTIONAL_BIAS_PCT == 70
MIN_BUYING_POWER == 5000
MAX_CONTRACTS_PER_TRADE == 10
max_position_size == 10000

\* net_liquidation of IBKRApi.get_account_summary()
IBKRApi_net_liquidation == 150000

\* a host whose clock runs on UTC, a broker without get_symbol_fundamentals
\* (as every broker of the repository), and the shipped configuration but for
\* MAX_POSITIONS, configured to 2 (default 5) so that three symbols reach it
BaseEnvironment ==
    [host_tz |-> 0, late |-> TRUE, positions |-> 2, heat |-> 10,
     fundamentals |-> FALSE, account |-> IBKRApi_net_liquidation]

\* a tighter configuration (MAX_PORTFOLIO_HEAT 6, no late entry) with a broker
\* that has fundamentals
TightEnvironment ==
    [host_tz |-> 0, late |-> FALSE, positions |-> 2, heat |-> 6,
     fundamentals |-> TRUE, account |-> IBKRApi_net_liquidation]

\* MAX_PORTFOLIO_HEAT 3, which one open position reaches, with a broker that
\* has fundamentals
HotEnvironment ==
    [host_tz |-> 0, late |-> TRUE, positions |-> 2, heat |-> 3,
     fundamentals |-> TRUE, account |-> IBKRApi_net_liquidation]

\* configurations and hosts explored: the base; the tighter configuration;
\* the base on a host whose clock runs on US/Eastern
Environments ==
    {BaseEnvironment,
     TightEnvironment,
     [host_tz |-> 0 - 4 * 60, late |-> TRUE, positions |-> 2, heat |-> 10,
      fundamentals |-> FALSE, account |-> IBKRApi_net_liquidation]}

\* the configurations explored for the admission checks, all on a UTC host
RiskEnvironments == {BaseEnvironment, TightEnvironment, HotEnvironment}

\* a live account (IBKRIBInsync.get_account_summary) whose net liquidation
\* is large enough for two positions of max_position_size in one industry,
\* with a broker that has fundamentals
LargeAccountEnvironment ==
    [host_tz |-> 0, late |-> TRUE, positions |-> 2, heat |-> 10,
     fundamentals |-> TRUE, account |-> 6000000]


\* available_funds the brokers report: IBKRApi.get_account_summary() always
\* the first; a live account (IBKRIBInsync.get_account_summary) also less than
\* MIN_BUYING_POWER
FundsSamples == {130000, 4000}

Symbols == {"AAPL", "MSFT", "XOM"}
Directions == {"LONG", "SHORT"}
\* the (symbol, signal type) pairs Scanner.scan reports
ScanResults ==
    {<<"AAPL", "LONG">>, <<"AAPL", "SHORT">>, <<"MSFT", "SHORT">>, <<"XOM", "LONG">>}

\* what a broker with fundamentals answers for the symbols
SectorOf(symbol) == IF symbol = "XOM" THEN "Energy" ELSE "Technology"
IndustryOf(symbol) ==
    IF symbol = "XOM" THEN "Oil" ELSE IF symbol = "AAPL" THEN "Hardware" ELSE "Software"

\* results of OptionSelector.select_vertical_spread: cost in dollars, and
\* whether both legs carry the bid/ask the executor prices the order from
Spreads == {[cost |-> 300, priced |-> TRUE], [cost |-> 450, priced |-> FALSE]}
\* select_vertical_spread returned None
NoSpread == [cost |-> 0 - 1, priced |-> FALSE]

EmptyMap == [x \in {} |-> 0]

\* no call in progress, nothing read, no signal taken
NoTrade == [symbol |-> NoneVal, direction |-> NoneVal, contracts |-> 0, spread |-> NoSpread]
NoMetrics == [daily_trades |-> 0 - 1, active_positions |-> {}, sector_exposure |-> EmptyMap,
              industry_exposure |-> EmptyMap]
NoSignal == [symbol |-> NoneVal, direction |-> NoneVal, id |-> 0]
Threads == 1 .. MaxThreads
NoSize == 0 - 1


(***************************************************************************)
(* Time.  now is the true exchange time; datetime.now() is the host's      *)
(* naive local time; convert_to_eastern takes a naive value for UTC.       *)
(***************************************************************************)
MinutesPerDay == 24 * 60
\* US/Eastern (daylight time) minus UTC, in minutes
ET_UTC_OFFSET == 0 - 4 * 60
\* Mon 13:00, Mon 14:50, Mon 15:01, Mon 19:01, Tue 15:01
ClockSamples == {13 * 60, 14 * 60 + 50, 15 * 60 + 1, 19 * 60 + 1,
                 MinutesPerDay + 15 * 60 + 1}

\* datetime.now(): naive local time of the host
datetime_now(t) == t - ET_UTC_OFFSET + host_tz

\* time_utils.convert_to_eastern for a naive datetime (assumed to be UTC)
convert_to_eastern(dt) == dt + ET_UTC_OFFSET

weekday(et) == (et \div MinutesPerDay) % 7
hour(et) == (et % MinutesPerDay) \div 60
minute(et) == et % 60

\* time_utils.is_market_open on an Eastern time
is_market_open(et) ==
    /\ weekday(et) < 5
    /\ (9 * 60 + 30) <= et % MinutesPerDay
    /\ et % MinutesPerDay < 16 * 60

\* the time-of-day rule of is_valid_execution_time on an Eastern time
in_execution_window(et) ==
    /\ is_market_open(et)
    /\ \/ hour(et) >= 15
       \/ hour(et) = 14 /\ minute(et) >= 45 /\ ALLOW_LATE_DAY_ENTRY

\* TradeExecutor.is_valid_execution_time(current_time)
is_valid_execution_time(current_time) ==
    in_execution_window(convert_to_eastern(current_time))

\* datetime.now().date(), as a day number
today(t) == datetime_now(t) \div MinutesPerDay
Days == 0 .. 6

(***************************************************************************)
(* RiskManager                                                             *)
(***************************************************************************)
\* get_sector_industry: (None, None) when the broker call raises
get_sector(symbol) == IF has_fundamentals THEN SectorOf(symbol) ELSE NoneVal
get_industry(symbol) == IF has_fundamentals THEN IndustryOf(symbol) ELSE NoneVal

\* dict.get(key, 0) on an exposure table
exposure_get(table, key) == IF key \in DOMAIN table THEN table[key] ELSE 0

RECURSIVE SumOver(_, _)
SumOver(f, S) ==
    IF S = {} THEN 0
    ELSE LET x == CHOOSE y \in S : TRUE IN f[x] + SumOver(f, S \ {x})

\* entry_price * contracts * 100 of a position
position_cost(position) == position.entry_price * position.contracts * 100

\* calculate_portfolio_heat: total_risk (dollars); the heat is
\* total_risk / account_value * 100
total_risk(positions) ==
    SumOver([s \in DOMAIN positions |->
                (position_cost(positions[s]) * RISK_PER_TRADE_PCT) \div 100],
            DOMAIN positions)

\* portfolio_heat >= limit, resp. > limit, without the division
heat_at_least(positions, limit) == total_risk(positions) * 100 >= limit * net_liquidation
heat_above(positions, limit) == total_risk(positions) * 100 > limit * net_liquidation

\* calculate_directional_exposure, before the division into percentages
direction_cost(positions, direction) ==
    SumOver([s \in DOMAIN positions |->
                IF positions[s].direction = direction
                THEN position_cost(positions[s]) ELSE 0],
            DOMAIN positions)

\* can_enter_trade, lines 166-181: long_percent > MAX_DIRECTIONAL_BIAS * (long% + short%)
bias_exceeded_OtherSide(positions, direction) ==
    LET long == direction_cost(positions, "LONG")
        short == direction_cost(positions, "SHORT")
        other == IF direction = "LONG" THEN short ELSE long
    IN  /\ long + short > 0
        /\ other * 100 > MAX_DIRECTIONAL_BIAS_PCT * (long + short)

bias_exceeded(positions, direction) ==
    LET long == direction_cost(positions, "LONG")
        short == direction_cost(positions, "SHORT")
        mine == IF direction = "LONG" THEN long ELSE short
    IN  /\ long + short > 0
        /\ mine * 100 > MAX_DIRECTIONAL_BIAS_PCT * (long + short)

\* can_enter_trade, line 107
daily_limit_reached_OffByOne(n) == n > MAX_DAILY_TRADES
daily_limit_reached(n) == n >= MAX_DAILY_TRADES

\* can_enter_trade, line 114
position_limit_reached_OffByOne(n) == n > MAX_POSITIONS
position_limit_reached(n) == n >= MAX_POSITIONS

Allowed == [allowed |-> TRUE, reason |-> <<"Trade allowed", 0>>]
Rejected(text, n) == [allowed |-> FALSE, reason |-> <<text, n>>]

\* can_enter_trade with the sector check ahead of the portfolio heat check
can_enter_trade_SectorBeforeHeat(symbol, direction, cost_per_contract, t) ==
    IF daily_limit_reached(Len(daily_trades[today(t)]))
    THEN Rejected("Maximum daily trades limit ({}) reached", MAX_DAILY_TRADES)
    ELSE IF position_limit_reached(Cardinality(DOMAIN active_positions))
    THEN Rejected("Maximum positions limit ({}) reached", MAX_POSITIONS)
    ELSE IF symbol \in DOMAIN active_positions
            /\ active_positions[symbol].direction = direction
    THEN Rejected("Already have a position", 0)
    ELSE IF get_sector(symbol) # NoneVal
            /\ (exposure_get(sector_exposure, get_sector(symbol)) + cost_per_contract) * 100
                 > net_liquidation * MAX_SECTOR_EXPOSURE_PCT
    THEN Rejected("Sector exposure limit reached", 0)
    ELSE IF heat_at_least(active_positions, MAX_PORTFOLIO_HEAT)
    THEN Rejected("Maximum portfolio heat reached", MAX_PORTFOLIO_HEAT)
    ELSE IF get_industry(symbol) # NoneVal
            /\ (exposure_get(industry_exposure, get_industry(symbol)) + cost_per_contract) * 100
                 > net_liquidation * MAX_INDUSTRY_EXPOSURE_PCT
    THEN Rejected("Industry exposure limit reached", 0)
    ELSE IF bias_exceeded(active_positions, direction)
    THEN Rejected("Maximum exposure bias reached", 0)
    ELSE IF available_funds < MIN_BUYING_POWER
    THEN Rejected("Insufficient buying power", 0)
    ELSE Allowed

\* RiskManager.can_enter_trade(symbol, direction, cost_per_contract) at time t
can_enter_trade(symbol, direction, cost_per_contract, t) ==
    IF daily_limit_reached(Len(daily_trades[today(t)]))
    THEN Rejected("Maximum daily trades limit ({}) reached", MAX_DAILY_TRADES)
    ELSE IF position_limit_reached(Cardinality(DOMAIN active_positions))
    THEN Rejected("Maximum positions limit ({}) reached", MAX_POSITIONS)
    ELSE IF symbol \in DOMAIN active_positions
            /\ active_positions[symbol].direction = direction
    THEN Rejected("Already have a position", 0)
    ELSE IF heat_at_least(active_positions, MAX_PORTFOLIO_HEAT)
    THEN Rejected("Maximum portfolio heat reached", MAX_PORTFOLIO_HEAT)
    ELSE IF get_sector(symbol) # NoneVal
            /\ (exposure_get(sector_exposure, get_sector(symbol)) + cost_per_contract) * 100
                 > net_liquidation * MAX_SECTOR_EXPOSURE_PCT
    THEN Rejected("Sector exposure limit reached", 0)
    ELSE IF get_industry(symbol) # NoneVal
            /\ (exposure_get(industry_exposure, get_industry(symbol)) + cost_per_contract) * 100
                 > net_liquidation * MAX_INDUSTRY_EXPOSURE_PCT
    THEN Rejected("Industry exposure limit reached", 0)
    ELSE IF bias_exceeded(active_positions, direction)
    THEN Rejected("Maximum exposure bias reached", 0)
    ELSE IF available_funds < MIN_BUYING_POWER
    THEN Rejected("Insufficient buying power", 0)
    ELSE Allowed

\* AlertSystem.send_risk_alert(risk_type, details): the alert handed to
\* send_alert
send_risk_alert(risk_type, details) ==
    [message |-> <<"Risk Management", risk_type>>, details |-> details,
     severity |-> "HIGH"]

\* the risk_type of the send_risk_alert call in the branch of can_enter_trade
\* that returns the rejection; NoneVal for a branch that sends none
risk_alert_type(text) ==
    CASE text = "Maximum portfolio heat reached" -> "Portfolio Heat Limit"
      [] text = "Sector exposure limit reached" -> "Sector Exposure Limit"
      [] text = "Industry exposure limit reached" -> "Industry Exposure Limit"
      [] text = "Maximum exposure bias reached" -> "Directional Bias Limit"
      [] text = "Insufficient buying power" -> "Insufficient Buying Power"
      [] OTHER -> NoneVal

\* the alerts a can_enter_trade call sends
can_enter_trade_alerts(symbol, direction, cost_per_contract, t) ==
    LET admission == can_enter_trade(symbol, direction, cost_per_contract, t)
        risk_type == risk_alert_type(admission.reason[1])
    IN IF alert_system /\ ~admission.allowed /\ risk_type # NoneVal
       THEN <<send_risk_alert(risk_type, admission.reason)>>
       ELSE <<>>

\* RiskManager.calculate_position_size(symbol, price): the definition at
\* lines 340-373, which replaces the one at lines 52-85 in the class body
calculate_position_size(price) ==
    LET max_risk == (net_liquidation * RISK_PER_TRADE_PCT) \div 100
        size == max_risk \div price
        capped == IF size * price > max_position_size
                  THEN max_position_size \div price ELSE size
    IN  IF capped > 1 THEN capped ELSE 1

\* table[key] += amount on a defaultdict(float), skipped when key is None
exposure_add(table, key, amount) ==
    IF key = NoneVal THEN table
    ELSE [k \in DOMAIN table \cup {key} |-> exposure_get(table, k) + (IF k = key THEN amount ELSE 0)]

\* table[key] -= amount; the entry is deleted once it is <= 0
exposure_sub(table, key, amount) ==
    IF key = NoneVal THEN table
    ELSE LET left == exposure_get(table, key) - amount
         IN  IF left <= 0
             THEN [k \in DOMAIN table \ {key} |-> table[k]]
             ELSE [k \in DOMAIN table \cup {key} |-> IF k = key THEN left ELSE table[k]]

TradeRecord(symbol, direction, contracts, spread) ==
    [symbol |-> symbol, direction |-> direction, contracts |-> contracts,
     cost |-> spread.cost]

Position(direction, contracts, spread) ==
    [direction |-> direction, contracts |-> contracts, spread |-> spread,
     entry_price |-> spread.cost]

\* RiskManager.record_trade(symbol, direction, contracts, spread) at time t:
\* the state after the call, as <<daily_trades, active_positions, sector, industry>>
record_trade(symbol, direction, contracts, spread, t) ==
    LET total_cost == spread.cost * contracts * 100
    IN  <<[daily_trades EXCEPT ![today(t)] =
              Append(@, TradeRecord(symbol, direction, contracts, spread))],
          [s \in DOMAIN active_positions \cup {symbol} |->
              IF s = symbol THEN Position(direction, contracts, spread)
              ELSE active_positions[s]],
          exposure_add(sector_exposure, get_sector(symbol), total_cost),
          exposure_add(industry_exposure, get_industry(symbol), total_cost)>>

\* RiskManager.close_position(symbol) on the given tables: the state after
\* the call, as <<active_positions, sector, industry>>
position_closed(positions, sectors, industries, symbol) ==
    IF symbol \notin DOMAIN positions THEN <<positions, sectors, industries>>
    ELSE LET position == positions[symbol]
             total_cost == position.spread.cost * position.contracts * 100
         IN  <<[s \in DOMAIN positions \ {symbol} |-> positions[s]],
               exposure_sub(sectors, get_sector(symbol), total_cost),
               exposure_sub(industries, get_industry(symbol), total_cost)>>

\* RiskManager.close_position(symbol)
close_position(symbol) ==
    /\ symbol \in DOMAIN active_positions
    /\ LET closed == position_closed(active_positions, sector_exposure,
                                     industry_exposure, symbol)
       IN  /\ active_positions' = closed[1]
           /\ sector_exposure' = closed[2]
           /\ industry_exposure' = closed[3]
    /\ UNCHANGED <<signal_queue, daily_trades, queued_trades, successful_trades, now, host_tz,
                   ALLOW_LATE_DAY_ENTRY, MAX_POSITIONS, MAX_PORTFOLIO_HEAT, has_fundamentals, net_liquidation,
                   available_funds, signals_made>>
    /\ last_drain' = <<>> /\ tr_ret' = NoRet
    /\ UNCHANGED <<ehvars, auxvars>>

(***************************************************************************)
(* TradeExecutor                                                           *)
(***************************************************************************)
QueuedTrade(signal, spread, size, queued_at) ==
    [signal |-> signal, spread |-> spread, size |-> size, queued_at |-> queued_at]

\* list.remove(x): drops the first element equal to x
RECURSIVE RemoveFirst(_, _)
RemoveFirst(seq, x) ==
    IF seq = <<>> THEN <<>>
    ELSE IF Head(seq) = x THEN Tail(seq)
    ELSE <<Head(seq)>> \o RemoveFirst(Tail(seq), x)

\* TradeExecutor.execute_trade(trade_signal, option_spread, position_size),
\* called at exchange time t with the queue q and ex successful trades so far
execute_trade(q, ex, signal, spread, size, t) ==
    LET current_time == datetime_now(t)
    IN  IF ~is_valid_execution_time(current_time)
        THEN [status |-> "QUEUED", at |-> t,
              queued |-> Append(q, QueuedTrade(signal, spread, size, current_time)),
              executed |-> ex]
        ELSE IF spread.priced
        THEN [status |-> "EXECUTED", at |-> t, queued |-> q, executed |-> ex + 1]
        ELSE [status |-> "FAILED", at |-> t, queued |-> q, executed |-> ex]

\* one iteration of the loop of process_queued_trades
drain_one(st, queued_trade, t) ==
    LET r == execute_trade(st.queued, st.executed, queued_trade.signal,
                           queued_trade.spread, queued_trade.size, t)
    IN  [queued |-> IF r.status = "EXECUTED"
                    THEN RemoveFirst(r.queued, queued_trade) ELSE r.queued,
         executed |-> r.executed,
         statuses |-> Append(st.statuses, r.status)]

\* for queued_trade in self.queued_trades[:]: the trade of the i-th iteration
nth_retry_BackToFront(snapshot, i) == snapshot[Len(snapshot) + 1 - i]
nth_retry(snapshot, i) == snapshot[i]

\* the loop over the copy of the queue; the first k retries read the clock
\* at now, the remaining ones at t2
RECURSIVE drain_from(_, _, _, _, _)
drain_from(snapshot, i, st, k, t2) ==
    IF i > Len(snapshot) THEN st
    ELSE drain_from(snapshot, i + 1,
                    drain_one(st, nth_retry(snapshot, i), IF i <= k THEN now ELSE t2),
                    k, t2)

\* TradeExecutor.process_queued_trades()
process_queued_trades(k, t2) ==
    IF ~is_valid_execution_time(datetime_now(now))
    THEN /\ k = Len(queued_trades) /\ t2 = now
         /\ last_drain' = <<>>
         /\ UNCHANGED <<queued_trades, successful_trades, now>>
    ELSE LET st == drain_from(queued_trades, 1,
                              [queued |-> queued_trades, executed |-> successful_trades,
                               statuses |-> <<>>], k, t2)
         IN  /\ Len(st.queued) <= MaxQueue
             /\ queued_trades' = st.queued
             /\ successful_trades' = st.executed
             /\ now' = t2
             /\ last_drain' = st.statuses

(***************************************************************************)
(* Trader (app/trader.py)                                                  *)
(***************************************************************************)
\* scan_for_signals: one signal_queue.put
scan_for_signals(symbol, direction) ==
    /\ signals_made < MaxSignals
    /\ signals_made' = signals_made + 1
    /\ signal_queue' = Append(signal_queue,
                              [symbol |-> symbol, direction |-> direction,
                               id |-> signals_made + 1])
    /\ UNCHANGED <<daily_trades, active_positions, sector_exposure, industry_exposure,
                   queued_trades, successful_trades, now, host_tz, ALLOW_LATE_DAY_ENTRY,
                   MAX_POSITIONS, MAX_PORTFOLIO_HEAT, has_fundamentals, net_liquidation,
                   available_funds>>
    /\ last_drain' = <<>> /\ tr_ret' = NoRet
    /\ UNCHANGED <<ehvars, auxvars>>

\* Trader.process_signal(signal); option_spread is what select_vertical_spread
\* returned
process_signal(signal, option_spread) ==
    LET admission == can_enter_trade(signal.symbol, signal.direction, 0, now)
    IN  /\ sent_alerts' = can_enter_trade_alerts(signal.symbol, signal.direction, 0, now)
        /\ IF ~admission.allowed
           THEN /\ tr_ret' = [status |-> "REJECTED",
                              result |-> admission.reason]
                /\ UNCHANGED <<daily_trades, active_positions, sector_exposure,
                               industry_exposure, queued_trades, successful_trades>>
           ELSE IF option_spread = NoSpread
           THEN /\ tr_ret' = [status |-> "REJECTED",
                              result |-> <<"No suitable option spread found", 0>>]
                /\ UNCHANGED <<daily_trades, active_positions, sector_exposure,
                               industry_exposure, queued_trades, successful_trades>>
           ELSE LET position_size == calculate_position_size(option_spread.cost)
                    r == execute_trade(queued_trades, successful_trades, signal, option_spread,
                                       position_size, now)
                    rec == record_trade(signal.symbol, signal.direction, position_size,
                                        option_spread, now)
                IN  /\ Len(r.queued) <= MaxQueue
                    /\ queued_trades' = r.queued
                    /\ successful_trades' = r.executed
                    /\ tr_ret' = [status |-> r.status,
                                  result |-> <<"", 0>>]
                    /\ IF r.status = "EXECUTED"
                       THEN /\ daily_trades' = rec[1]
                            /\ active_positions' = rec[2]
                            /\ sector_exposure' = rec[3]
                            /\ industry_exposure' = rec[4]
                       ELSE UNCHANGED <<daily_trades, active_positions, sector_exposure,
                                        industry_exposure>>

\* process_signal, lines 159-174, for a signal that passed the admission
\* check: the trade is sized and handed to TradeExecutor.execute_trade
execute_trade_call(symbol, direction, option_spread) ==
    /\ signals_made < MaxSignals
    /\ signals_made' = signals_made + 1
    /\ LET signal == [symbol |-> symbol, direction |-> direction, id |-> signals_made + 1]
           r == execute_trade(queued_trades, successful_trades, signal, option_spread,
                              calculate_position_size(option_spread.cost), now)
       IN  /\ Len(r.queued) <= MaxQueue
           /\ queued_trades' = r.queued
           /\ successful_trades' = r.executed
           /\ tr_ret' = [status |-> r.status, result |-> <<"", 0>>]
    /\ last_drain' = <<>>
    /\ UNCHANGED <<signal_queue, daily_trades, active_positions, sector_exposure,
                   industry_exposure, now, host_tz, ALLOW_LATE_DAY_ENTRY, MAX_POSITIONS,
                   MAX_PORTFOLIO_HEAT, has_fundamentals, net_liquidation, available_funds>>
    /\ UNCHANGED <<ehvars, auxvars>>

\* process_signal, lines 159-163: the position size for a spread of cost
\* ps_cost, with account_value = get_account_value()
position_sizing ==
    /\ ps_size = NoSize
    /\ ps_size' = calculate_position_size(ps_cost)
    /\ UNCHANGED <<ehvars, trvars, rtvars, wkvars, ps_cost, libvars>>

\* _process_signals_thread, a tick that dequeues a signal
WorkerSignal(option_spread) ==
    /\ signal_queue # <<>>
    /\ signal_queue' = Tail(signal_queue)
    /\ process_signal(Head(signal_queue), option_spread)
    /\ UNCHANGED <<now, host_tz, ALLOW_LATE_DAY_ENTRY, MAX_POSITIONS, MAX_PORTFOLIO_HEAT,
                   has_fundamentals, net_liquidation, available_funds, signals_made>>
    /\ last_drain' = <<>>
    /\ UNCHANGED <<ehvars, rtvars, wkvars, psvars, quietvars, alert_system>>

\* _process_signals_thread, a tick whose get() timed out (queue.Empty)
WorkerIdle(k, t2) ==
    /\ signal_queue = <<>>
    /\ process_queued_trades(k, t2)
    /\ UNCHANGED <<signal_queue, daily_trades, active_positions, sector_exposure,
                   industry_exposure, host_tz, ALLOW_LATE_DAY_ENTRY, MAX_POSITIONS, MAX_PORTFOLIO_HEAT,
                   has_fundamentals, net_liquidation, available_funds, signals_made>>
    /\ tr_ret' = NoRet
    /\ UNCHANGED <<ehvars, auxvars>>

(***************************************************************************)
(* record_trade statement by statement, and a reader on another thread     *)
(***************************************************************************)
\* the worker enters record_trade for a trade that can_enter_trade allowed and
\* execute_trade executed, and appends the record to today's daily_trades
record_trade_append(symbol, direction, spread) ==
    /\ rt_pc = "idle"
    /\ can_enter_trade(symbol, direction, 0, now).allowed
    /\ spread.priced /\ is_valid_execution_time(datetime_now(now))
    /\ LET contracts == calculate_position_size(spread.cost)
       IN  /\ rt_trade' = [symbol |-> symbol, direction |-> direction,
                           contracts |-> contracts, spread |-> spread]
           /\ daily_trades' = [daily_trades EXCEPT ![today(now)] =
                                  Append(@, TradeRecord(symbol, direction, contracts, spread))]
    /\ rt_pc' = "appended"
    /\ metrics' = NoMetrics
    /\ UNCHANGED <<signal_queue, active_positions, sector_exposure, industry_exposure,
                   queued_trades, successful_trades, now, host_tz, ALLOW_LATE_DAY_ENTRY,
                   MAX_POSITIONS, MAX_PORTFOLIO_HEAT, has_fundamentals, net_liquidation, available_funds,
                   signals_made, last_drain, tr_ret>>
    /\ UNCHANGED <<ehvars, wkvars, psvars, libvars>>

\* self.active_positions[symbol] = {...}
record_trade_insert ==
    /\ rt_pc = "appended"
    /\ active_positions' =
          [s \in DOMAIN active_positions \cup {rt_trade.symbol} |->
              IF s = rt_trade.symbol
              THEN Position(rt_trade.direction, rt_trade.contracts, rt_trade.spread)
              ELSE active_positions[s]]
    /\ rt_pc' = "inserted"
    /\ metrics' = NoMetrics
    /\ UNCHANGED <<signal_queue, daily_trades, sector_exposure, industry_exposure,
                   queued_trades, successful_trades, now, host_tz, ALLOW_LATE_DAY_ENTRY,
                   MAX_POSITIONS, MAX_PORTFOLIO_HEAT, has_fundamentals, net_liquidation, available_funds,
                   signals_made, last_drain, tr_ret, rt_trade>>
    /\ UNCHANGED <<ehvars, wkvars, psvars, libvars>>

\* get_sector_industry(symbol): the call of broker_api.get_symbol_fundamentals
\* goes out
record_trade_fundamentals ==
    /\ rt_pc = "inserted"
    /\ rt_pc' = "fundamentals"
    /\ metrics' = NoMetrics
    /\ UNCHANGED <<trvars, rt_trade, ehvars, wkvars, psvars, libvars>>

\* the broker has answered (or raised); sector_exposure and industry_exposure
\* are updated and record_trade returns
record_trade_exposure ==
    /\ rt_pc = "fundamentals"
    /\ LET total_cost == rt_trade.spread.cost * rt_trade.contracts * 100
       IN  /\ sector_exposure' =
                 exposure_add(sector_exposure, get_sector(rt_trade.symbol), total_cost)
           /\ industry_exposure' =
                 exposure_add(industry_exposure, get_industry(rt_trade.symbol), total_cost)
    /\ rt_pc' = "idle"
    /\ rt_trade' = NoTrade
    /\ metrics' = NoMetrics
    /\ UNCHANGED <<signal_queue, daily_trades, active_positions, queued_trades,
                   successful_trades, now, host_tz, ALLOW_LATE_DAY_ENTRY, MAX_POSITIONS,
                   MAX_PORTFOLIO_HEAT, has_fundamentals, net_liquidation, available_funds, signals_made,
                   last_drain, tr_ret>>
    /\ UNCHANGED <<ehvars, wkvars, psvars, libvars>>

\* Trader.get_status() on the main thread: RiskManager.get_metrics() reads the
\* tables without any lock
get_status ==
    /\ metrics' = [daily_trades |-> Len(daily_trades[today(now)]),
                   active_positions |-> DOMAIN active_positions,
                   sector_exposure |-> sector_exposure,
                   industry_exposure |-> industry_exposure]
    /\ UNCHANGED <<trvars, rt_pc, rt_trade, ehvars, wkvars, psvars, libvars>>

(***************************************************************************)
(* Trader.start, Trader.stop and the worker threads they create            *)
(***************************************************************************)
WorkerFrame ==
    UNCHANGED <<host_tz, ALLOW_LATE_DAY_ENTRY, MAX_POSITIONS, MAX_PORTFOLIO_HEAT,
                has_fundamentals, net_liquidation, available_funds, signals_made, ehvars, rtvars, psvars, libvars>>

\* Trader.start(): sets processing and starts a new thread, whatever the
\* state of the threads started before
start ==
    /\ \E w \in Threads :
          /\ worker_pc[w] = "unborn"
          /\ \A v \in Threads : v < w => worker_pc[v] # "unborn"
          /\ worker_pc' = [worker_pc EXCEPT ![w] = "loop"]
    /\ processing' = TRUE
    /\ last_drain' = <<>> /\ tr_ret' = NoRet
    /\ UNCHANGED <<signal_queue, daily_trades, active_positions, sector_exposure,
                   industry_exposure, queued_trades, successful_trades, now, held, processed>>
    /\ WorkerFrame

\* Trader.stop(): clears processing; join(timeout=5.0) returns whether or
\* not the thread has ended
stop ==
    /\ processing' = FALSE
    /\ last_drain' = <<>> /\ tr_ret' = NoRet
    /\ UNCHANGED <<signal_queue, daily_trades, active_positions, sector_exposure,
                   industry_exposure, queued_trades, successful_trades, now, worker_pc, held,
                   processed>>
    /\ WorkerFrame

\* _process_signals_thread: while self.processing
worker_check(w) ==
    /\ worker_pc[w] = "loop"
    /\ worker_pc' = [worker_pc EXCEPT ![w] = IF processing THEN "waiting" ELSE "ended"]
    /\ last_drain' = <<>> /\ tr_ret' = NoRet
    /\ UNCHANGED <<signal_queue, daily_trades, active_positions, sector_exposure,
                   industry_exposure, queued_trades, successful_trades, now, processing, held,
                   processed>>
    /\ WorkerFrame

\* signal = self.signal_queue.get(timeout=1.0) returns a signal
worker_take(w) ==
    /\ worker_pc[w] = "waiting"
    /\ signal_queue # <<>>
    /\ signal_queue' = Tail(signal_queue)
    /\ held' = [held EXCEPT ![w] = Head(signal_queue)]
    /\ worker_pc' = [worker_pc EXCEPT ![w] = "processing"]
    /\ last_drain' = <<>> /\ tr_ret' = NoRet
    /\ UNCHANGED <<daily_trades, active_positions, sector_exposure, industry_exposure,
                   queued_trades, successful_trades, now, processing, processed>>
    /\ WorkerFrame

\* self.process_signal(signal) of the thread, taken as one step
worker_process(w, option_spread) ==
    /\ worker_pc[w] = "processing"
    /\ process_signal(held[w], option_spread)
    /\ processed' = Append(processed, held[w].id)
    /\ held' = [held EXCEPT ![w] = NoSignal]
    /\ worker_pc' = [worker_pc EXCEPT ![w] = "loop"]
    /\ last_drain' = <<>>
    /\ UNCHANGED <<signal_queue, now, processing>>
    /\ UNCHANGED <<host_tz, ALLOW_LATE_DAY_ENTRY, MAX_POSITIONS, MAX_PORTFOLIO_HEAT,
                   has_fundamentals, net_liquidation, available_funds, signals_made, ehvars, rtvars,
                   psvars, quietvars, alert_system>>

\* get() raised queue.Empty: the thread drains the queued trades
worker_timeout(w, k, t2) ==
    /\ worker_pc[w] = "waiting"
    /\ signal_queue = <<>>
    /\ process_queued_trades(k, t2)
    /\ worker_pc' = [worker_pc EXCEPT ![w] = "loop"]
    /\ tr_ret' = NoRet
    /\ UNCHANGED <<signal_queue, daily_trades, active_positions, sector_exposure,
                   industry_exposure, processing, held, processed>>
    /\ WorkerFrame

\* the account summary of the broker reports other available funds
account_summary_changes(funds) ==
    /\ funds # available_funds
    /\ available_funds' = funds
    /\ UNCHANGED <<signal_queue, daily_trades, active_positions, sector_exposure,
                   industry_exposure, queued_trades, successful_trades, now, host_tz,
                   ALLOW_LATE_DAY_ENTRY, MAX_POSITIONS, MAX_PORTFOLIO_HEAT, has_fundamentals, net_liquidation,
                   signals_made>>
    /\ last_drain' = <<>> /\ tr_ret' = NoRet
    /\ UNCHANGED <<ehvars, auxvars>>

\* the exchange clock moves on to the next sampled moment
Tick(t) ==
    /\ t > now
    /\ \A u \in ClockSamples : ~(now < u /\ u < t)
    /\ now' = t
    /\ UNCHANGED <<signal_queue, daily_trades, active_positions, sector_exposure,
                   industry_exposure, queued_trades, successful_trades, host_tz,
                   ALLOW_LATE_DAY_ENTRY, MAX_POSITIONS, MAX_PORTFOLIO_HEAT, has_fundamentals, net_liquidation,
                   available_funds, signals_made>>
    /\ last_drain' = <<>> /\ tr_ret' = NoRet
    /\ UNCHANGED <<ehvars, auxvars>>

(***************************************************************************)
(* ExitStrategyManager (trading/exit_strategy.py). Prices are in cents.    *)
(***************************************************************************)
\* a key the position dictionary does not hold
NoPrice == 0 - 1

STOP_LOSS_PERCENTAGE == 50
MIN_DAYS_TO_EXPIRY == 5
R_MULTIPLE_TARGET == 2
TRAILING_STOP_PERCENTAGE == 20
\* the floor of 0.05 under a computed stop
MIN_STOP_PRICE == 5

\* the prices observed for a position and the days left to its expiry
PriceSamples == {20 * n : n \in 1 .. MaxPriceSteps}
DaysSamples == {MIN_DAYS_TO_EXPIRY - 2, MIN_DAYS_TO_EXPIRY, MIN_DAYS_TO_EXPIRY + 1}
ENTRY_PRICE == 100
StopSamples == {NoPrice, 60, 140}
TargetSamples == {NoPrice, 40, 160, 240}

abs(x) == IF x < 0 THEN 0 - x ELSE x
max(a, b) == IF a >= b THEN a ELSE b

\* a position as RiskManager.record_trade creates it: no highest_price,
\* lowest_price or trailing_stop key yet
NewPosition(direction, stop_price, target_price) ==
    [direction |-> direction, entry_price |-> ENTRY_PRICE,
     stop_price |-> stop_price, target_price |-> target_price,
     highest_price |-> NoPrice, lowest_price |-> NoPrice,
     trailing_stop |-> NoPrice]

ExitRet(exit, reason, current_price, days_to_expiry) ==
    [exit |-> exit, reason |-> reason, current_price |-> current_price,
     days_to_expiry |-> days_to_expiry]

NoExitCall == ExitRet(FALSE, "", NoPrice, NoPrice)

\* ExitStrategyManager._calculate_stop_loss
calculate_stop_loss(entry_price, direction) ==
    LET stop_price == IF direction = "LONG"
                      THEN (entry_price * (100 - STOP_LOSS_PERCENTAGE)) \div 100
                      ELSE (entry_price * (100 + STOP_LOSS_PERCENTAGE)) \div 100
    IN max(stop_price, MIN_STOP_PRICE)

\* position.get("highest_price", entry_price), position.get("lowest_price", entry_price)
get_highest_price(pos) ==
    IF pos.highest_price = NoPrice THEN pos.entry_price ELSE pos.highest_price

get_lowest_price(pos) ==
    IF pos.lowest_price = NoPrice THEN pos.entry_price ELSE pos.lowest_price

\* ExitStrategyManager._check_trailing_stop: the position it leaves and
\* whether the trailing stop is triggered
check_trailing_stop_TrackLast(pos, current_price) ==
    IF pos.direction = "LONG"
    THEN [position |-> [pos EXCEPT !.highest_price = current_price],
          hit |-> FALSE]
    ELSE [position |-> [pos EXCEPT !.lowest_price = current_price],
          hit |-> FALSE]

check_trailing_stop(pos, current_price) ==
    IF pos.direction = "LONG"
    THEN LET raised == current_price > get_highest_price(pos)
             highest_price == IF raised THEN current_price ELSE get_highest_price(pos)
         IN [position |-> IF raised
                          THEN [pos EXCEPT !.highest_price = current_price]
                          ELSE pos,
             hit |-> current_price * 100
                       <= highest_price * (100 - TRAILING_STOP_PERCENTAGE)]
    ELSE LET lowered == current_price < get_lowest_price(pos)
             lowest_price == IF lowered THEN current_price ELSE get_lowest_price(pos)
         IN [position |-> IF lowered
                          THEN [pos EXCEPT !.lowest_price = current_price]
                          ELSE pos,
             hit |-> current_price * 100
                       >= lowest_price * (100 + TRAILING_STOP_PERCENTAGE)]

\* what should_exit_position leaves and returns
ExitOutcome(pos, exit, reason) == [position |-> pos, exit |-> exit, reason |-> reason]

\* ExitStrategyManager.should_exit_position
should_exit_position_RMultipleFirst(pos, current_price, days_to_expiry) ==
    LET stop_loss == IF pos.stop_price = NoPrice
                     THEN calculate_stop_loss(pos.entry_price, pos.direction)
                     ELSE pos.stop_price
        r_value == abs(pos.entry_price - stop_loss)
        r_target == IF pos.direction = "LONG"
                    THEN pos.entry_price + r_value * R_MULTIPLE_TARGET
                    ELSE pos.entry_price - r_value * R_MULTIPLE_TARGET
        trailing_result == check_trailing_stop(pos, current_price)
    IN IF /\ pos.stop_price # NoPrice
          /\ \/ pos.direction = "LONG" /\ current_price <= pos.stop_price
             \/ pos.direction = "SHORT" /\ current_price >= pos.stop_price
       THEN ExitOutcome(pos, TRUE, "Stop loss triggered")
       ELSE IF /\ pos.target_price # NoPrice
               /\ \/ pos.direction = "LONG" /\ current_price >= pos.target_price
                  \/ pos.direction = "SHORT" /\ current_price <= pos.target_price
       THEN ExitOutcome(pos, TRUE, "Profit target reached")
       ELSE IF /\ USE_R_MULTIPLE_EXIT
               /\ IF pos.direction = "LONG" THEN current_price >= r_target
                                            ELSE current_price <= r_target
       THEN ExitOutcome(pos, TRUE, "R-multiple target reached")
       ELSE IF days_to_expiry <= MIN_DAYS_TO_EXPIRY
       THEN ExitOutcome(pos, TRUE, "Position close to expiry")
       ELSE IF USE_TRAILING_STOP /\ trailing_result.hit
       THEN ExitOutcome(trailing_result.position, TRUE, "Trailing stop triggered")
       ELSE IF USE_TRAILING_STOP
       THEN ExitOutcome(trailing_result.position, FALSE, "No exit criteria met")
       ELSE ExitOutcome(pos, FALSE, "No exit criteria met")

should_exit_position(pos, current_price, days_to_expiry) ==
    LET stop_loss == IF pos.stop_price = NoPrice
                     THEN calculate_stop_loss(pos.entry_price, pos.direction)
                     ELSE pos.stop_price
        r_value == abs(pos.entry_price - stop_loss)
        r_target == IF pos.direction = "LONG"
                    THEN pos.entry_price + r_value * R_MULTIPLE_TARGET
                    ELSE pos.entry_price - r_value * R_MULTIPLE_TARGET
        trailing_result == check_trailing_stop(pos, current_price)
    IN IF /\ pos.stop_price # NoPrice
          /\ \/ pos.direction = "LONG" /\ current_price <= pos.stop_price
             \/ pos.direction = "SHORT" /\ current_price >= pos.stop_price
       THEN ExitOutcome(pos, TRUE, "Stop loss triggered")
       ELSE IF /\ pos.target_price # NoPrice
               /\ \/ pos.direction = "LONG" /\ current_price >= pos.target_price
                  \/ pos.direction = "SHORT" /\ current_price <= pos.target_price
       THEN ExitOutcome(pos, TRUE, "Profit target reached")
       ELSE IF days_to_expiry <= MIN_DAYS_TO_EXPIRY
       THEN ExitOutcome(pos, TRUE, "Position close to expiry")
       ELSE IF /\ USE_R_MULTIPLE_EXIT
               /\ IF pos.direction = "LONG" THEN current_price >= r_target
                                            ELSE current_price <= r_target
       THEN ExitOutcome(pos, TRUE, "R-multiple target reached")
       ELSE IF USE_TRAILING_STOP /\ trailing_result.hit
       THEN ExitOutcome(trailing_result.position, TRUE, "Trailing stop triggered")
       ELSE IF USE_TRAILING_STOP
       THEN ExitOutcome(trailing_result.position, FALSE, "No exit criteria met")
       ELSE ExitOutcome(pos, FALSE, "No exit criteria met")

\* ExitStrategyManager.update_exits_for_position without underlying data
update_exits_for_position(pos, current_price) ==
    IF ~USE_TRAILING_STOP THEN pos
    ELSE IF pos.direction = "LONG"
    THEN IF current_price > get_highest_price(pos)
         THEN [pos EXCEPT !.highest_price = current_price,
                          !.trailing_stop =
                             (current_price * (100 - TRAILING_STOP_PERCENTAGE)) \div 100]
         ELSE pos
    ELSE IF current_price < get_lowest_price(pos)
         THEN [pos EXCEPT !.lowest_price = current_price,
                          !.trailing_stop =
                             (current_price * (100 + TRAILING_STOP_PERCENTAGE)) \div 100]
         ELSE pos

\* a monitoring pass asks whether the position should be exited at the
\* price it observed
should_exit_position_call(current_price, days_to_expiry) ==
    LET outcome == should_exit_position(open_position, current_price, days_to_expiry)
    IN /\ open_position' = outcome.position
       /\ exit_ret' = ExitRet(outcome.exit, outcome.reason, current_price,
                              days_to_expiry)
       /\ UNCHANGED <<USE_R_MULTIPLE_EXIT, USE_TRAILING_STOP>>
       /\ UNCHANGED <<ehvars, trvars, rtvars, wkvars, psvars, alvars, sfvars, cnvars, brvars>>

\* a monitoring pass updates the exit levels of the position
update_exits_for_position_call(current_price) ==
    /\ open_position' = update_exits_for_position(open_position, current_price)
    /\ UNCHANGED <<USE_R_MULTIPLE_EXIT, USE_TRAILING_STOP, exit_ret>>
    /\ UNCHANGED <<ehvars, trvars, rtvars, wkvars, psvars, alvars, sfvars, cnvars, brvars>>

(***************************************************************************)
(* OptionSpreadFilter (options/spread_filter.py) and SpreadManager         *)
(* (options/spread_manager.py). Units: cost, bid, ask and theta in cents   *)
(* per share (cost * 100 is dollars per contract), delta, vega and gamma   *)
(* in hundredths, reward_risk in tenths, the others in percent or days.    *)
(***************************************************************************)
min_dte == 30
max_dte == 45
min_delta == 30
max_delta == 45
max_spread_cost == 500
min_reward_risk == 15
min_open_interest == 1000
\* max_bid_ask_spread_pct = 0.5 percent, in tenths of a percent
max_bid_ask_spread_pct == 5
min_iv_rank == 0
max_iv_rank == 100
min_call_put_skew_pct == 0
max_theta_per_day == 10
max_vega_exposure == 40
max_gamma_exposure == 40
min_prob_of_profit == 65
max_width_vs_move_pct == 150
days_before_earnings == 5
days_before_ex_div == 3

\* no earnings_date / ex_dividend_date in underlying_data
NoDays == 0 - 1000

min2(a, b) == IF a <= b THEN a ELSE b

\* OptionSpreadFilter._check_basic_criteria with dte_from_atr = False
check_basic_criteria(spread) ==
    /\ ~(spread.dte < min_dte \/ spread.dte > max_dte)
    /\ ~(abs(spread.delta) < min_delta \/ abs(spread.delta) > max_delta)
    /\ ~(spread.cost > max_spread_cost)
    /\ ~(spread.reward_risk < min_reward_risk)

\* OptionSpreadFilter._check_liquidity
check_liquidity(spread) ==
    /\ ~(min2(spread.leg1_open_interest, spread.leg2_open_interest) < min_open_interest)
    /\ ~(spread.leg1_ask = 0 \/ spread.leg2_ask = 0)
    /\ ~(max((spread.leg1_ask - spread.leg1_bid) * 1000 * spread.leg2_ask,
             (spread.leg2_ask - spread.leg2_bid) * 1000 * spread.leg1_ask)
           > max_bid_ask_spread_pct * spread.leg1_ask * spread.leg2_ask)

\* OptionSpreadFilter._check_iv_regime
check_iv_regime(spread, underlying_data) ==
    /\ ~(underlying_data.iv_rank < min_iv_rank \/ underlying_data.iv_rank > max_iv_rank)
    /\ ~(underlying_data.call_put_skew < min_call_put_skew_pct)

\* OptionSpreadFilter._check_greek_risks
check_greek_risks(spread) ==
    /\ ~(abs(spread.theta) > max_theta_per_day)
    /\ ~(abs(spread.vega) > max_vega_exposure)
    /\ ~(abs(spread.gamma) > max_gamma_exposure)

\* OptionSpreadFilter._check_probability_metrics
check_probability_metrics(spread, underlying_data) ==
    /\ ~(spread.probability_of_profit < min_prob_of_profit)
    /\ \/ underlying_data.expected_move = 0
       \/ ~(abs(spread.leg1_strike - spread.leg2_strike) * 100
              > max_width_vs_move_pct * underlying_data.expected_move)

\* OptionSpreadFilter._check_calendar_events; the dates are given as the
\* days from today to them
check_calendar_events(underlying_data) ==
    /\ ~(/\ underlying_data.days_to_earnings # NoDays
         /\ 0 <= underlying_data.days_to_earnings
         /\ underlying_data.days_to_earnings <= days_before_earnings)
    /\ ~(/\ underlying_data.days_to_ex_div # NoDays
         /\ 0 <= underlying_data.days_to_ex_div
         /\ underlying_data.days_to_ex_div <= days_before_ex_div)

\* OptionSpreadFilter._passes_all_filters
passes_all_filters(spread, underlying_data) ==
    /\ check_basic_criteria(spread)
    /\ check_liquidity(spread)
    /\ check_iv_regime(spread, underlying_data)
    /\ check_greek_risks(spread)
    /\ check_probability_metrics(spread, underlying_data)
    /\ check_calendar_events(underlying_data)

\* OptionSpreadFilter.filter_spreads
filter_spreads(spreads, underlying_data) ==
    SelectSeq(spreads, LAMBDA spread : passes_all_filters(spread, underlying_data))

\* SpreadManager.get_spread_candidates: strategy type -> filtered spreads,
\* spreads being what select_strikes returned for the two types
SpreadTypes == <<"BULL_PUT_SPREAD", "BEAR_CALL_SPREAD">>

get_spread_candidates(spreads, underlying_data) ==
    IF underlying_data.price <= 0
    THEN <<>>
    ELSE [i \in 1 .. 2 |->
            filter_spreads(SelectSeq(spreads, LAMBDA spread : spread.type = SpreadTypes[i]),
                           underlying_data)]

\* sorted(all_spreads, key=reward_risk, reverse=True): a stable sort, equal
\* keys keep their order
RECURSIVE sorted_by_reward_risk(_)
sorted_by_reward_risk(all_spreads) ==
    IF all_spreads = <<>> THEN <<>>
    ELSE LET top == CHOOSE i \in DOMAIN all_spreads :
                      /\ \A j \in DOMAIN all_spreads :
                            all_spreads[j].reward_risk <= all_spreads[i].reward_risk
                      /\ \A j \in DOMAIN all_spreads :
                            all_spreads[j].reward_risk = all_spreads[i].reward_risk
                            => i <= j
         IN <<all_spreads[top]>>
            \o sorted_by_reward_risk(
                  [k \in 1 .. Len(all_spreads) - 1 |->
                     IF k < top THEN all_spreads[k] ELSE all_spreads[k + 1]])

\* the survivors of both strategy types in the order rank_spreads appends them
all_spreads_of(spread_candidates) ==
    IF spread_candidates = <<>> THEN <<>>
    ELSE spread_candidates[1] \o spread_candidates[2]

\* SpreadManager.rank_spreads
rank_spreads_LastOfTies(spread_candidates) ==
    LET all_spreads == all_spreads_of(spread_candidates)
    IN sorted_by_reward_risk([k \in 1 .. Len(all_spreads) |->
                                all_spreads[Len(all_spreads) + 1 - k]])

rank_spreads(spread_candidates) ==
    sorted_by_reward_risk(all_spreads_of(spread_candidates))

\* SpreadManager.get_best_spread: <<>> for None, else the spread in a 1-tuple
get_best_spread(spreads, underlying_data) ==
    LET ranked_spreads == rank_spreads(get_spread_candidates(spreads, underlying_data))
    IN IF ranked_spreads # <<>> THEN <<ranked_spreads[1]>> ELSE <<>>

\* the underlying data of a quiet day and its variants
QuietUnderlying ==
    [price |-> 100, iv_rank |-> 50, call_put_skew |-> 5, expected_move |-> 10,
     days_to_earnings |-> NoDays, days_to_ex_div |-> NoDays]

UnderlyingSamples ==
    {QuietUnderlying,
     [QuietUnderlying EXCEPT !.days_to_earnings = 0],
     [QuietUnderlying EXCEPT !.days_to_ex_div = 3],
     [QuietUnderlying EXCEPT !.iv_rank = 101],
     [QuietUnderlying EXCEPT !.price = 0]}

\* a spread that passes every filter on a quiet day, and spreads that differ
\* from it in one attribute
SoundSpread ==
    [type |-> "BULL_PUT_SPREAD", leg1_strike |-> 100, leg2_strike |-> 95,
     dte |-> 35, delta |-> 35, gamma |-> 5, theta |-> 0 - 5, vega |-> 10,
     cost |-> 300, reward_risk |-> 15,
     leg1_bid |-> 1000, leg1_ask |-> 1005, leg2_bid |-> 700, leg2_ask |-> 703,
     leg1_open_interest |-> 1500, leg2_open_interest |-> 1000,
     probability_of_profit |-> 65]

SpreadSamples ==
    {SoundSpread,
     [SoundSpread EXCEPT !.reward_risk = 20],
     [SoundSpread EXCEPT !.type = "BEAR_CALL_SPREAD", !.reward_risk = 20],
     [SoundSpread EXCEPT !.leg2_open_interest = 800],
     [SoundSpread EXCEPT !.cost = 0],
     [SoundSpread EXCEPT !.cost = 0 - 50, !.reward_risk = 20],
     [SoundSpread EXCEPT !.cost = 501],
     [SoundSpread EXCEPT !.reward_risk = 14],
     [SoundSpread EXCEPT !.dte = 46],
     [SoundSpread EXCEPT !.delta = 0 - 29],
     [SoundSpread EXCEPT !.leg2_ask = 704],
     [SoundSpread EXCEPT !.theta = 0 - 11],
     [SoundSpread EXCEPT !.probability_of_profit = 64, !.reward_risk = 20],
     [SoundSpread EXCEPT !.leg2_strike = 84]}

RECURSIVE SeqsUpTo(_, _)
SeqsUpTo(S, n) ==
    IF n = 0 THEN {<<>>}
    ELSE LET shorter == SeqsUpTo(S, n - 1)
         IN shorter \cup {Append(q, x) : q \in shorter, x \in S}

SpreadRet(op, result) == [op |-> op, result |-> result]

\* OptionSpreadFilter.filter_spreads(candidates, underlying) is called
filter_spreads_call ==
    /\ spread_ret' = SpreadRet("filter_spreads", filter_spreads(candidates, underlying))
    /\ UNCHANGED <<candidates, underlying>>
    /\ UNCHANGED <<ehvars, trvars, rtvars, wkvars, psvars, exvars, alvars, cnvars, brvars>>

\* SpreadManager.get_best_spread is called on a chain for which
\* select_strikes returns the candidates
get_best_spread_call ==
    /\ spread_ret' = SpreadRet("get_best_spread", get_best_spread(candidates, underlying))
    /\ UNCHANGED <<candidates, underlying>>
    /\ UNCHANGED <<ehvars, trvars, rtvars, wkvars, psvars, exvars, alvars, cnvars, brvars>>

(***************************************************************************)
(* IBKRIBInsyncApi.connect (brokers/ibkr_ib_insync.py). Times in seconds.  *)
(***************************************************************************)
\* range(1, max_attempts + 1)
max_attempts == 3
\* ib.connect(..., timeout=20) and time.sleep(2)
CONNECT_TIMEOUT == 20
RETRY_SLEEP == 2

\* `if attempt < max_attempts`: the failed attempt is followed by another
retry_Always(n) == TRUE
retry(n) == n < max_attempts

\* how long an ib.connect call may take before it returns or raises
ConnectDurations == {0, 1, CONNECT_TIMEOUT}

\* connect() is called, also again after it returned (a reconnect)
connect_call ==
    /\ conn_pc \in {"idle", "returned"}
    /\ conn_pc' = "attempt"
    /\ attempt' = 1
    /\ failures' = 0
    /\ elapsed' = 0
    /\ conn_ret' = "None"
    /\ ib_connected' = FALSE
    /\ UNCHANGED connected
    /\ UNCHANGED <<ehvars, trvars, rtvars, wkvars, psvars, exvars, alvars, sfvars, brvars>>

\* self.ib.connect(...) returns within its timeout: break; whether
\* ib.isConnected() holds afterwards is the socket's answer
ib_connect_returns(d, is_connected) ==
    /\ conn_pc = "attempt"
    /\ elapsed' = elapsed + d
    /\ ib_connected' = is_connected
    /\ conn_pc' = "check"
    /\ UNCHANGED <<attempt, failures, connected, conn_ret>>
    /\ UNCHANGED <<ehvars, trvars, rtvars, wkvars, psvars, exvars, alvars, sfvars, brvars>>

\* self.ib.connect(...) raises: a retry is scheduled, or after the last
\* attempt the exception reaches the outer handler, which sets
\* connected = False and returns False
ib_connect_raises(d) ==
    /\ conn_pc = "attempt"
    /\ elapsed' = elapsed + d
    /\ failures' = failures + 1
    /\ IF retry(attempt)
       THEN /\ conn_pc' = "sleep"
            /\ UNCHANGED <<connected, conn_ret>>
       ELSE /\ conn_pc' = "returned"
            /\ connected' = FALSE
            /\ conn_ret' = "False"
    /\ UNCHANGED <<attempt, ib_connected>>
    /\ UNCHANGED <<ehvars, trvars, rtvars, wkvars, psvars, exvars, alvars, sfvars, brvars>>

\* time.sleep(2), then the next attempt of the loop
retry_sleep ==
    /\ conn_pc = "sleep"
    /\ elapsed' = elapsed + RETRY_SLEEP
    /\ attempt' = attempt + 1
    /\ conn_pc' = "attempt"
    /\ UNCHANGED <<failures, connected, conn_ret, ib_connected>>
    /\ UNCHANGED <<ehvars, trvars, rtvars, wkvars, psvars, exvars, alvars, sfvars, brvars>>

\* after the loop: if self.ib.isConnected() the handlers are set up and the
\* account requested, calls that return (True) or raise (outer handler:
\* connected = False, False); else False is returned
check_connected(setup_raises) ==
    /\ conn_pc = "check"
    /\ conn_pc' = "returned"
    /\ IF ib_connected
       THEN IF setup_raises
            THEN connected' = FALSE /\ conn_ret' = "False"
            ELSE connected' = TRUE /\ conn_ret' = "True"
       ELSE /\ conn_ret' = "False"
            /\ UNCHANGED connected
    /\ UNCHANGED <<attempt, failures, elapsed, ib_connected>>
    /\ UNCHANGED <<ehvars, trvars, rtvars, wkvars, psvars, exvars, alvars, sfvars, brvars>>

(***************************************************************************)
(* IBKRIBInsyncApi.cancel_order and the event handlers of one order.  The  *)
(* handlers run where ib_insync runs its event loop: in the thread that    *)
(* calls ib.sleep.  IBKRIBInsyncApi.lock is a threading.Lock, which a      *)
(* thread that holds it cannot acquire again.                              *)
(***************************************************************************)
\* for _ in range(5)
CONFIRM_TRIES == 5
\* statuses with which cancel_order refuses, and those that confirm
DoneStatuses == {"Filled", "Cancelled", "ApiCancelled"}
ConfirmedStatuses == {"Cancelled", "ApiCancelled"}

Event(kind, status) == [kind |-> kind, status |-> status]
\* orderStatusEvent, execDetailsEvent and commissionReportEvent of the order
EventSamples ==
    {Event("orderStatus", "Cancelled"), Event("orderStatus", "Filled"),
     Event("execDetails", NoneVal), Event("commissionReport", NoneVal)}

\* trade.orderStatus.status once ib_insync has taken the event in
status_after(ev) == IF ev.kind = "orderStatus" THEN ev.status ELSE trade_status

\* order_info["status"] after _on_order_status, _on_execution or
\* _on_commission_report ran under the lock
handler_outcome(ev) ==
    IF ev.kind \in {"orderStatus", "execDetails"} THEN status_after(ev) ELSE order_info

\* TWS sends an event about the order
gateway_sends(ev) ==
    /\ Len(in_flight) < MaxEvents
    /\ ev.kind = "orderStatus"
       => /\ trade_status \notin DoneStatuses
          /\ \A i \in 1 .. Len(in_flight) : in_flight[i].kind # "orderStatus"
    /\ in_flight' = Append(in_flight, ev)
    /\ UNCHANGED <<cancel_pc, cancel_tries, lock_owner, trade_status, order_info, cancel_ret>>
    /\ UNCHANGED <<ehvars, trvars, rtvars, wkvars, psvars, exvars, alvars, sfvars, cnvars,
                   simvars, cycle_pc>>

\* cancel_order(order_id), lines 716-740: the lock is taken; a done order is
\* refused, else the request is sent with ib.cancelOrder
cancel_order_call ==
    /\ cancel_pc \in {"idle", "returned"}
    /\ lock_owner = NoneVal
    /\ IF trade_status \in DoneStatuses
       THEN /\ cancel_pc' = "returned"
            /\ cancel_ret' = "False"
            /\ UNCHANGED <<lock_owner, cancel_tries>>
       ELSE /\ cancel_pc' = "sleep"
            /\ cancel_ret' = NoneVal
            /\ lock_owner' = "cancel_order"
            /\ cancel_tries' = 0
    /\ UNCHANGED <<trade_status, order_info, in_flight>>
    /\ UNCHANGED <<ehvars, trvars, rtvars, wkvars, psvars, exvars, alvars, sfvars, cnvars,
                   simvars, cycle_pc>>

\* one pass of the loop of lines 743-749, the lock held: self.ib.sleep(0.2)
\* runs the event loop, which hands the first undispatched event to its
\* handler in this thread, and the handler waits for the lock; without an
\* event the status is tested and the loop goes on or ends
ib_sleep ==
    /\ cancel_pc = "sleep"
    /\ IF in_flight # <<>>
       THEN /\ trade_status' = status_after(Head(in_flight))
            /\ in_flight' = Tail(in_flight)
            /\ IF lock_owner = NoneVal
               THEN /\ order_info' = handler_outcome(Head(in_flight))
                    /\ UNCHANGED cancel_pc
               ELSE /\ cancel_pc' = "blocked"
                    /\ UNCHANGED order_info
            /\ UNCHANGED <<cancel_tries, lock_owner, cancel_ret>>
       ELSE /\ cancel_tries' = cancel_tries + 1
            /\ IF trade_status \in ConfirmedStatuses
               THEN /\ order_info' = trade_status
                    /\ cancel_pc' = "returned"
                    /\ cancel_ret' = "True"
                    /\ lock_owner' = NoneVal
               ELSE IF cancel_tries + 1 = CONFIRM_TRIES
               THEN /\ cancel_pc' = "returned"
                    /\ cancel_ret' = "True"
                    /\ lock_owner' = NoneVal
                    /\ UNCHANGED order_info
               ELSE UNCHANGED <<cancel_pc, cancel_ret, lock_owner, order_info>>
            /\ UNCHANGED <<trade_status, in_flight>>
    /\ UNCHANGED <<ehvars, trvars, rtvars, wkvars, psvars, exvars, alvars, sfvars, cnvars,
                   simvars, cycle_pc>>

\* handle_callbacks() outside cancel_order: self.ib.sleep(0) hands the first
\* undispatched event to its handler, which takes the lock and returns
handle_callbacks ==
    /\ cancel_pc \in {"idle", "returned"}
    /\ in_flight # <<>>
    /\ lock_owner = NoneVal
    /\ trade_status' = status_after(Head(in_flight))
    /\ order_info' = handler_outcome(Head(in_flight))
    /\ in_flight' = Tail(in_flight)
    /\ UNCHANGED <<cancel_pc, cancel_tries, lock_owner, cancel_ret>>
    /\ UNCHANGED <<ehvars, trvars, rtvars, wkvars, psvars, exvars, alvars, sfvars, cnvars,
                   simvars, cycle_pc>>

(***************************************************************************)
(* The stop and the target RiskManager.record_trade stores with a position *)
(* and RiskManager.should_exit_position.  Prices are in cents.             *)
(***************************************************************************)
\* Config.TARGET_REWARD_RISK (1.5), in percent
TARGET_REWARD_RISK_PCT == 150

\* vertical spreads five dollars wide bought for 1.00, 2.00 or 4.00
VerticalSpread(spread_type, cost) ==
    [spread_type |-> spread_type, cost |-> cost,
     long_strike |-> IF spread_type \in {"BULL_CALL", "BULL_PUT"} THEN 10000 ELSE 10500,
     short_strike |-> IF spread_type \in {"BULL_CALL", "BULL_PUT"} THEN 10500 ELSE 10000]

\* OptionSelector.select_vertical_spread: a bull call spread for a LONG
\* signal, a bear put spread for a SHORT one
selected_spread_type(direction) == IF direction = "LONG" THEN "BULL_CALL" ELSE "BEAR_PUT"

SelectedSpreads(direction) ==
    {VerticalSpread(selected_spread_type(direction), cost) : cost \in {100, 200, 400}}

\* RiskManager.calculate_stop_price(option_spread)
calculate_stop_price(option_spread) ==
    max((option_spread.cost * (100 - STOP_LOSS_PERCENTAGE)) \div 100, MIN_STOP_PRICE)

\* RiskManager.calculate_target_price(option_spread, direction)
calculate_target_price(option_spread, direction) ==
    LET max_profit ==
            IF direction = "LONG"
            THEN IF option_spread.spread_type = "BULL_CALL"
                 THEN (option_spread.short_strike - option_spread.long_strike)
                        - option_spread.cost
                 ELSE (option_spread.long_strike - option_spread.short_strike)
                        - option_spread.cost
            ELSE option_spread.cost
        risk == option_spread.cost
        target_profit == min2(max_profit, (risk * TARGET_REWARD_RISK_PCT) \div 100)
    IN  IF direction = "LONG"
        THEN option_spread.cost + target_profit
        ELSE max(option_spread.cost - target_profit, MIN_STOP_PRICE)

\* the position record_trade stores in active_positions (lines 226-235)
RecordedPosition(direction, option_spread) ==
    [NewPosition(direction, calculate_stop_price(option_spread),
                 calculate_target_price(option_spread, direction))
       EXCEPT !.entry_price = option_spread.cost]

\* RiskManager.should_exit_position(symbol, current_price) for the position
\* pos of the symbol, days_to_expiry days before the expiration of its spread
RiskManager_should_exit_position(pos, current_price, days_to_expiry) ==
    IF pos.direction = "LONG" /\ current_price <= pos.stop_price
    THEN <<TRUE, "Stop loss triggered">>
    ELSE IF pos.direction = "SHORT" /\ current_price >= pos.stop_price
    THEN <<TRUE, "Stop loss triggered">>
    ELSE IF pos.direction = "LONG" /\ current_price >= pos.target_price
    THEN <<TRUE, "Profit target reached">>
    ELSE IF pos.direction = "SHORT" /\ current_price <= pos.target_price
    THEN <<TRUE, "Profit target reached">>
    ELSE IF days_to_expiry <= MIN_DAYS_TO_EXPIRY
    THEN <<TRUE, "Position close to expiry">>
    ELSE IF USE_R_MULTIPLE_EXIT
    THEN LET r_value == abs(pos.entry_price - pos.stop_price)
         IN  IF pos.direction = "LONG"
                /\ current_price >= pos.entry_price + r_value * R_MULTIPLE_TARGET
             THEN <<TRUE, "R-multiple target reached">>
             ELSE IF pos.direction = "SHORT"
                     /\ current_price <= pos.entry_price - r_value * R_MULTIPLE_TARGET
             THEN <<TRUE, "R-multiple target reached">>
             ELSE <<FALSE, "No exit criteria met">>
    ELSE <<FALSE, "No exit criteria met">>

\* record_trade(symbol, direction, contracts, spread): the position it stores
record_trade_position(direction, option_spread) ==
    /\ open_position' = RecordedPosition(direction, option_spread)
    /\ exit_ret' = NoExitCall
    /\ UNCHANGED <<USE_R_MULTIPLE_EXIT, USE_TRAILING_STOP>>
    /\ UNCHANGED <<ehvars, trvars, rtvars, wkvars, psvars, alvars, sfvars, cnvars, brvars>>

\* should_exit_position(symbol, current_price) on the stored position
RiskManager_should_exit_position_call(current_price, days_to_expiry) ==
    /\ open_position.stop_price # NoPrice
    /\ LET r == RiskManager_should_exit_position(open_position, current_price,
                                                 days_to_expiry)
       IN  exit_ret' = ExitRet(r[1], r[2], current_price, days_to_expiry)
    /\ UNCHANGED <<open_position, USE_R_MULTIPLE_EXIT, USE_TRAILING_STOP>>
    /\ UNCHANGED <<ehvars, trvars, rtvars, wkvars, psvars, alvars, sfvars, cnvars, brvars>>

(***************************************************************************)
(* Trader.run_scan_cycle (app/trader.py) on the main thread, next to the    *)
(* worker threads of Trader.start.                                          *)
(***************************************************************************)
\* what Trader.get_status() collects from RiskManager.get_metrics()
Trader_status ==
    [daily_trades |-> Len(daily_trades[today(now)]),
     active_positions |-> DOMAIN active_positions,
     sector_exposure |-> sector_exposure,
     industry_exposure |-> industry_exposure]

\* signals = self.scan_for_signals(symbols, strategies): one signal_queue.put
\* of the scan the cycle runs
run_scan_cycle_scan(symbol, direction) ==
    /\ cycle_pc \in {"idle", "scanning"}
    /\ signals_made < MaxSignals
    /\ signals_made' = signals_made + 1
    /\ signal_queue' = Append(signal_queue,
                              [symbol |-> symbol, direction |-> direction,
                               id |-> signals_made + 1])
    /\ cycle_pc' = "scanning"
    /\ last_drain' = <<>> /\ tr_ret' = NoRet
    /\ UNCHANGED <<daily_trades, active_positions, sector_exposure, industry_exposure,
                   queued_trades, successful_trades, now, host_tz, ALLOW_LATE_DAY_ENTRY,
                   MAX_POSITIONS, MAX_PORTFOLIO_HEAT, has_fundamentals, net_liquidation,
                   available_funds>>
    /\ UNCHANGED <<ehvars, rtvars, wkvars, psvars, alvars, exvars, sfvars, cnvars,
                   ibvars, simvars>>

\* the scan has returned and the loop
\*   while not self.signal_queue.empty() and (time.time() - start_time) < 300
\* ends, either on an empty queue or, late, on the 300 seconds; then
\* status = self.get_status() and the return
run_scan_cycle_collect(late) ==
    /\ cycle_pc = "scanning"
    /\ signal_queue = <<>> \/ late
    /\ metrics' = Trader_status
    /\ cycle_pc' = IF late THEN "timed_out" ELSE "returned"
    /\ UNCHANGED <<trvars, rt_pc, rt_trade>>
    /\ UNCHANGED <<ehvars, wkvars, psvars, alvars, exvars, sfvars, cnvars, ibvars,
                   simvars>>

(***************************************************************************)
(* IBKRApi, the simulated broker (brokers/ibkr_api.py): place_order, the    *)
(* thread _simulate_order_fill it starts for the order, and cancel_order.   *)
(* Each body runs under self.lock, so each is one step.  One symbol; the    *)
(* fill prices and the trade list of the position are left out.            *)
(***************************************************************************)
ContractSamples == {1, 2}

SimFrame ==
    UNCHANGED <<ehvars, trvars, rtvars, wkvars, psvars, alvars, exvars, sfvars, cnvars,
                ibvars, cycle_pc>>

\* place_order: the record with status 'SUBMITTED' and the fill thread
place_order(direction, contracts) ==
    /\ Len(sim_orders) < MaxOrders
    /\ sim_orders' = Append(sim_orders, [direction |-> direction, contracts |-> contracts,
                                         status |-> "SUBMITTED"])
    /\ fill_pc' = Append(fill_pc, "sleeping")
    /\ UNCHANGED <<sim_quantity, cancel_true>>
    /\ SimFrame

\* _simulate_order_fill(order_id) after its sleep: the order, whatever its
\* status, becomes 'FILLED' and the position quantity moves by its contracts
IBKRApi_simulate_order_fill(order_id) ==
    /\ order_id \in 1..Len(sim_orders)
    /\ fill_pc[order_id] = "sleeping"
    /\ sim_orders' = [sim_orders EXCEPT ![order_id].status = "FILLED"]
    /\ sim_quantity' = IF sim_orders[order_id].direction = "LONG"
                       THEN sim_quantity + sim_orders[order_id].contracts
                       ELSE sim_quantity - sim_orders[order_id].contracts
    /\ fill_pc' = [fill_pc EXCEPT ![order_id] = "done"]
    /\ UNCHANGED cancel_true
    /\ SimFrame

\* cancel_order(order_id): False for an unknown, filled or cancelled order,
\* True after setting 'CANCELLED'
IBKRApi_cancel_order(order_id) ==
    /\ IF \/ order_id \notin 1..Len(sim_orders)
          \/ sim_orders[order_id].status \in {"FILLED", "CANCELLED"}
       THEN UNCHANGED <<sim_orders, cancel_true>>
       ELSE /\ sim_orders' = [sim_orders EXCEPT ![order_id].status = "CANCELLED"]
            /\ cancel_true' = cancel_true \cup {order_id}
    /\ UNCHANGED <<sim_quantity, fill_pc>>
    /\ SimFrame

(***************************************************************************)
(* Specifications                                                          *)
(***************************************************************************)
\* ErrorHandler.__init__
InitErrorHandler ==
    /\ error_counts = [k \in ErrorKeys |-> 0]
    /\ recovery_attempts = [k \in ErrorKeys |-> 0]
    /\ last_errors = [k \in ErrorKeys |-> NoTime]
    /\ circuit_breakers = [c \in critical_components |->
                             [tripped |-> FALSE, trip_time |-> NoTime,
                              reset_time |-> NoTime]]
    /\ eh_now = 0
    /\ eh_ret = EhRet(NoneVal, NoneVal, TRUE, "")

\* Trader.__init__, RiskManager.__init__, TradeExecutor.__init__
InitTrader ==
    /\ signal_queue = <<>>
    /\ daily_trades = [d \in Days |-> <<>>]
    /\ active_positions = EmptyMap
    /\ sector_exposure = EmptyMap
    /\ industry_exposure = EmptyMap
    /\ queued_trades = <<>>
    /\ successful_trades = 0
    /\ signals_made = 0
    /\ available_funds = 130000
    /\ last_drain = <<>>
    /\ tr_ret = NoRet

\* no thread started, no call in progress
InitThreads ==
    /\ rt_pc = "idle"
    /\ rt_trade = NoTrade
    /\ metrics = NoMetrics
    /\ processing = FALSE
    /\ worker_pc = [w \in Threads |-> "unborn"]
    /\ held = [w \in Threads |-> NoSignal]
    /\ processed = <<>>
    /\ ps_cost = 0
    /\ ps_size = NoSize

\* no position under monitoring, the exit configuration of Config
InitExitStrategy ==
    /\ open_position = NewPosition("LONG", NoPrice, NoPrice)
    /\ USE_R_MULTIPLE_EXIT = TRUE
    /\ USE_TRAILING_STOP = TRUE
    /\ exit_ret = NoExitCall

\* Trader.__init__ builds its RiskManager without an alert system
InitAlerts ==
    /\ alert_system = FALSE
    /\ sent_alerts = <<>>

\* no spread handed to the filter
InitSpreadFilter ==
    /\ candidates = <<>>
    /\ underlying = QuietUnderlying
    /\ spread_ret = SpreadRet("", <<>>)

\* IBKRIBInsyncApi.__init__: not connected, connect() not called
InitConnection ==
    /\ conn_pc = "idle"
    /\ attempt = 0
    /\ failures = 0
    /\ elapsed = 0
    /\ connected = FALSE
    /\ conn_ret = "None"
    /\ ib_connected = FALSE

\* IBKRIBInsyncApi with one order submitted and no cancel_order call made;
\* IBKRApi.__init__; no run_scan_cycle call made
InitBrokers ==
    /\ cancel_pc = "idle"
    /\ cancel_tries = 0
    /\ lock_owner = NoneVal
    /\ trade_status = "Submitted"
    /\ order_info = "Submitted"
    /\ cancel_ret = NoneVal
    /\ in_flight = <<>>
    /\ sim_orders = <<>>
    /\ sim_quantity = 0
    /\ fill_pc = <<>>
    /\ cancel_true = {}
    /\ cycle_pc = "idle"

\* the collaborators of the pipeline before their first call
InitLibrary ==
    /\ InitExitStrategy
    /\ InitAlerts
    /\ InitSpreadFilter
    /\ InitConnection /\ InitBrokers

\* the configuration and the host of a run
Environment(e) ==
    /\ host_tz = e.host_tz
    /\ ALLOW_LATE_DAY_ENTRY = e.late
    /\ MAX_POSITIONS = e.positions
    /\ MAX_PORTFOLIO_HEAT = e.heat
    /\ has_fundamentals = e.fundamentals
    /\ net_liquidation = e.account

\* the base deployment, started on a Monday at 15:01 exchange time, inside
\* the execution window
Init ==
    /\ InitErrorHandler /\ InitTrader /\ InitThreads /\ InitLibrary
    /\ now = 15 * 60 + 1
    /\ Environment(BaseEnvironment)

\* any of the deployments, started on a Monday at 13:00 exchange time, before
\* the execution window opens
InitSites ==
    /\ InitErrorHandler /\ InitTrader /\ InitThreads /\ InitLibrary
    /\ now = 13 * 60
    /\ \E e \in Environments : Environment(e)

Next ==
    \/ \E found \in ScanResults : scan_for_signals(found[1], found[2])
    \/ \E option_spread \in Spreads \cup {NoSpread} : WorkerSignal(option_spread)
    \/ \E k \in 0 .. MaxQueue, t2 \in ClockSamples :
          /\ k <= Len(queued_trades)
          /\ t2 >= now
          /\ (k = Len(queued_trades)) <=> (t2 = now)
          /\ WorkerIdle(k, t2)
    \/ \E symbol \in Symbols : close_position(symbol)
    \/ \E t \in ClockSamples : Tick(t)

Spec == Init /\ [][Next]_vars

SpecSites == InitSites /\ [][Next]_vars

\* any of the risk configurations, started on a Monday at 15:01 exchange time
InitRisk ==
    /\ InitErrorHandler /\ InitTrader /\ InitThreads /\ InitLibrary
    /\ now = 15 * 60 + 1
    /\ \E e \in RiskEnvironments : Environment(e)

\* one trading session inside the execution window with a worker that keeps
\* up with the scanner: a signal is put only when none is waiting, so that
\* the RiskManager sees every order of signals and closes
NextRisk ==
    \/ \E found \in ScanResults :
          signal_queue = <<>> /\ scan_for_signals(found[1], found[2])
    \/ \E option_spread \in Spreads \cup {NoSpread} : WorkerSignal(option_spread)
    \/ \E symbol \in Symbols : close_position(symbol)
    \/ \E funds \in FundsSamples : account_summary_changes(funds)

SpecRisk == InitRisk /\ [][NextRisk]_vars

\* the worker inside record_trade, the main thread reading the status
NextRecord ==
    \/ \E found \in ScanResults, spread \in Spreads :
          record_trade_append(found[1], found[2], spread)
    \/ record_trade_insert
    \/ record_trade_fundamentals
    \/ record_trade_exposure
    \/ get_status

SpecRecord == InitRisk /\ [][NextRecord]_vars

\* the TradeExecutor of the base deployment, started on a Monday at 13:00
\* exchange time, before the execution window opens, and handed its trades
\* directly
InitQueue ==
    /\ InitErrorHandler /\ InitTrader /\ InitThreads /\ InitLibrary
    /\ now = 13 * 60
    /\ Environment(BaseEnvironment)

NextQueue ==
    \/ \E found \in ScanResults, option_spread \in Spreads :
          execute_trade_call(found[1], found[2], option_spread)
    \/ \E k \in 0 .. MaxQueue, t2 \in ClockSamples :
          /\ k <= Len(queued_trades)
          /\ t2 >= now
          /\ (k = Len(queued_trades)) <=> (t2 = now)
          /\ WorkerIdle(k, t2)
    \/ \E t \in ClockSamples : Tick(t)

SpecQueue == InitQueue /\ [][NextQueue]_vars

\* the costs of the spreads handed to the position sizing
SpreadCosts == {50 * n : n \in 1 .. MaxCostSteps}

\* the base deployment with a spread of any of these costs selected
InitSizing ==
    /\ InitErrorHandler /\ InitTrader /\ InitLibrary
    /\ now = 15 * 60 + 1
    /\ Environment(BaseEnvironment)
    /\ rt_pc = "idle" /\ rt_trade = NoTrade /\ metrics = NoMetrics
    /\ processing = FALSE
    /\ worker_pc = [w \in Threads |-> "unborn"]
    /\ held = [w \in Threads |-> NoSignal]
    /\ processed = <<>>
    /\ ps_cost \in SpreadCosts
    /\ ps_size = NoSize

NextSizing == position_sizing

SpecSizing == InitSizing /\ [][NextSizing]_vars

\* any sequence of start, stop and scan calls, and the threads they leave
NextWorkers ==
    \/ start
    \/ stop
    \/ \E found \in ScanResults : scan_for_signals(found[1], found[2])
    \/ \E w \in Threads : worker_check(w)
    \/ \E w \in Threads : worker_take(w)
    \/ \E w \in Threads, option_spread \in Spreads \cup {NoSpread} :
          worker_process(w, option_spread)
    \/ \E w \in Threads : worker_timeout(w, Len(queued_trades), now)

SpecWorkers == Init /\ [][NextWorkers]_vars

InitEH == Init

NextEH ==
    \/ \E component \in Components, error_type \in ErrorTypes, has_ctx \in BOOLEAN :
          handle_error(component, error_type, has_ctx)
    \/ check_circuit_breakers
    \/ \E component \in Components : can_use_component(component)
    \/ \E older_than_minutes \in OlderThan : clear_error_counts(older_than_minutes)
    \/ \E d \in TickSteps : EhTick(d)

SpecEH == InitEH /\ [][NextEH]_vars

\* the pipeline of the base deployment at rest
InitPipeline ==
    /\ InitErrorHandler /\ InitTrader /\ InitThreads
    /\ now = 15 * 60 + 1
    /\ Environment(BaseEnvironment)

\* a newly recorded position of either direction under any exit configuration
InitExit ==
    /\ InitPipeline
    /\ \E direction \in Directions, stop_price \in StopSamples,
          target_price \in TargetSamples :
          open_position = NewPosition(direction, stop_price, target_price)
    /\ USE_R_MULTIPLE_EXIT \in BOOLEAN
    /\ USE_TRAILING_STOP \in BOOLEAN
    /\ exit_ret = NoExitCall
    /\ InitAlerts /\ InitSpreadFilter /\ InitConnection /\ InitBrokers

\* the monitoring of the position over any sequence of observed prices
NextExit ==
    \/ \E current_price \in PriceSamples, days_to_expiry \in DaysSamples :
          should_exit_position_call(current_price, days_to_expiry)
    \/ \E current_price \in PriceSamples :
          update_exits_for_position_call(current_price)

SpecExit == InitExit /\ [][NextExit]_vars

\* any of the risk configurations with a RiskManager that was given an
\* alert system
InitAlerting ==
    /\ InitErrorHandler /\ InitTrader /\ InitThreads /\ InitExitStrategy
    /\ now = 15 * 60 + 1
    /\ \E e \in RiskEnvironments : Environment(e)
    /\ alert_system = TRUE
    /\ sent_alerts = <<>>
    /\ InitSpreadFilter /\ InitConnection /\ InitBrokers

SpecAlerts == InitAlerting /\ [][NextRisk]_vars

\* the session of SpecRisk on the large account
InitLargeAccount ==
    /\ InitErrorHandler /\ InitTrader /\ InitThreads /\ InitLibrary
    /\ now = 15 * 60 + 1
    /\ Environment(LargeAccountEnvironment)

SpecLargeAccount == InitLargeAccount /\ [][NextRisk]_vars

\* any list of up to MaxCandidates spreads with the data of their underlying
InitFilter ==
    /\ InitPipeline /\ InitExitStrategy /\ InitAlerts /\ InitConnection /\ InitBrokers
    /\ candidates \in SeqsUpTo(SpreadSamples, MaxCandidates)
    /\ underlying \in UnderlyingSamples
    /\ spread_ret = SpreadRet("", <<>>)

NextFilter ==
    \/ filter_spreads_call
    \/ get_best_spread_call

SpecFilter == InitFilter /\ [][NextFilter]_vars

\* the thread that calls connect(), and calls it again after it returned
NextConnect ==
    \/ connect_call
    \/ \E d \in ConnectDurations, is_connected \in BOOLEAN :
          ib_connect_returns(d, is_connected)
    \/ \E d \in ConnectDurations : ib_connect_raises(d)
    \/ retry_sleep
    \/ \E setup_raises \in BOOLEAN : check_connected(setup_raises)

\* the steps inside connect(): the calling thread keeps running, and
\* ib.connect returns or raises within its timeout
ConnectStep ==
    \/ \E d \in ConnectDurations, is_connected \in BOOLEAN :
          ib_connect_returns(d, is_connected)
    \/ \E d \in ConnectDurations : ib_connect_raises(d)
    \/ retry_sleep
    \/ \E setup_raises \in BOOLEAN : check_connected(setup_raises)

SpecConnect == Init /\ [][NextConnect]_vars /\ WF_vars(ConnectStep)

\* cancel_order calls on one submitted order while TWS reports on it
NextCancel ==
    \/ \E ev \in EventSamples : gateway_sends(ev)
    \/ cancel_order_call
    \/ ib_sleep
    \/ handle_callbacks

\* the thread inside cancel_order keeps running
SpecCancel == Init /\ [][NextCancel]_vars /\ WF_vars(ib_sleep)

\* no position recorded yet, either setting of USE_R_MULTIPLE_EXIT
InitStops ==
    /\ InitPipeline
    /\ open_position = NewPosition("LONG", NoPrice, NoPrice)
    /\ USE_R_MULTIPLE_EXIT \in BOOLEAN
    /\ USE_TRAILING_STOP = TRUE
    /\ exit_ret = NoExitCall
    /\ InitAlerts /\ InitSpreadFilter /\ InitConnection /\ InitBrokers

\* trades recorded and the stored position asked for its exit, at its
\* entry price and at the sampled prices
NextStops ==
    \/ \E direction \in Directions :
          \E option_spread \in SelectedSpreads(direction) :
             record_trade_position(direction, option_spread)
    \/ \E current_price \in PriceSamples \cup {open_position.entry_price},
          days_to_expiry \in DaysSamples :
          RiskManager_should_exit_position_call(current_price, days_to_expiry)

SpecStops == InitStops /\ [][NextStops]_vars

\* one scan cycle of the main thread while the threads of Trader.start run
NextCycle ==
    \/ start
    \/ \E found \in ScanResults : run_scan_cycle_scan(found[1], found[2])
    \/ \E late \in BOOLEAN : run_scan_cycle_collect(late)
    \/ \E w \in Threads : worker_check(w)
    \/ \E w \in Threads : worker_take(w)
    \/ \E w \in Threads, option_spread \in Spreads \cup {NoSpread} :
          worker_process(w, option_spread)
    \/ \E w \in Threads : worker_timeout(w, Len(queued_trades), now)

SpecCycle == Init /\ [][NextCycle]_vars

\* orders placed with the simulated broker, cancelled by the caller and
\* filled by their threads in any order
NextSim ==
    \/ \E direction \in Directions, contracts \in ContractSamples :
          place_order(direction, contracts)
    \/ \E order_id \in 1..MaxOrders : IBKRApi_simulate_order_fill(order_id)
    \/ \E order_id \in 1..MaxOrders : IBKRApi_cancel_order(order_id)

SpecSim == Init /\ [][NextSim]_vars

(***************************************************************************)
(* Properties                                                              *)
(***************************************************************************)
BreakerComponents == Components \cap critical_components

\* a step that is handle_error for the key <<c, e>>: only handle_error increments
IsHandleError(c, e) ==
    /\ <<c, e>> \in ErrorKeys
    /\ error_counts'[<<c, e>>] = error_counts[<<c, e>>] + 1

\* C1: for a component with a breaker that is untripped, a handle_error call
\* with a critical error kind leaves the breaker untripped while the count of
\* that (component, kind) stays below CIRCUIT_BREAKER_THRESHOLD, and the call
\* that brings the count to the threshold trips the breaker and returns
\* (False, "Circuit breaker tripped").
C1_ThresholdTrips ==
    [][\A c \in BreakerComponents, e \in ErrorTypes :
          (/\ IsHandleError(c, e)
           /\ is_critical_error(e)
           /\ ~circuit_breakers[c].tripped)
          => /\ error_counts'[<<c, e>>] < CIRCUIT_BREAKER_THRESHOLD
                  => ~circuit_breakers'[c].tripped
             /\ error_counts'[<<c, e>>] = CIRCUIT_BREAKER_THRESHOLD
                  => /\ circuit_breakers'[c].tripped
                     /\ eh_ret' = EhRet("handle_error", c, FALSE,
                                        "Circuit breaker tripped")]_vars

C1_Witness ==
    /\ circuit_breakers["IBKR_API"].tripped
    /\ error_counts[<<"IBKR_API", "CONNECTION_ERROR">>] = CIRCUIT_BREAKER_THRESHOLD
    /\ eh_ret = EhRet("handle_error", "IBKR_API", FALSE, "Circuit breaker tripped")

\* C2: while the breaker of a component is tripped, a handle_error call for
\* that component returns a failure and leaves recovery_attempts of every
\* key unchanged.
C2_TrippedSkipsRecovery ==
    [][\A c \in BreakerComponents, e \in ErrorTypes :
          (IsHandleError(c, e) /\ circuit_breakers[c].tripped)
          => /\ recovery_attempts' = recovery_attempts
             /\ eh_ret'.op = "handle_error"
             /\ ~eh_ret'.ok]_vars

C2_Witness ==
    /\ circuit_breakers["IBKR_API"].tripped
    /\ eh_ret = EhRet("handle_error", "IBKR_API", FALSE, "Circuit breaker active")
    /\ error_counts[<<"IBKR_API", "REQUEST_ERROR">>] > 0

\* C3: once the reset_time of a tripped breaker has passed, the next
\* can_use_component call returns True and clears tripped, and the next
\* handle_error call proceeds as for an untripped component.
C3_LazyReset ==
    [][\A c \in BreakerComponents :
          (circuit_breakers[c].tripped /\ eh_now >= circuit_breakers[c].reset_time)
          => /\ can_use_component(c)
                  => (eh_ret'.ok /\ ~circuit_breakers'[c].tripped)
             /\ \A e \in ErrorTypes :
                  IsHandleError(c, e) => eh_ret'.msg # "Circuit breaker active"]_vars

\* the trade record record_trade appends for a queued trade
RecordOf(queued_trade) ==
    TradeRecord(queued_trade.signal.symbol, queued_trade.signal.direction,
                queued_trade.size, queued_trade.spread)

InSeq(x, seq) == \E i \in 1 .. Len(seq) : seq[i] = x

IsRecorded(symbol, record, t) ==
    /\ symbol \in DOMAIN active_positions'
    /\ InSeq(record, daily_trades'[today(t)])

\* C4: every trade that reaches EXECUTED, on the immediate execute_trade call
\* or in a later drain pass, is then recorded by record_trade: it is in
\* active_positions and in today's daily_trades.
C4_ExecutedIsRecorded ==
    [][/\ \A sp \in Spreads :
             (WorkerSignal(sp) /\ tr_ret'.status = "EXECUTED")
             => IsRecorded(Head(signal_queue).symbol,
                           TradeRecord(Head(signal_queue).symbol,
                                       Head(signal_queue).direction,
                                       calculate_position_size(sp.cost), sp),
                           now)
       /\ \A k \in 0 .. MaxQueue, t2 \in ClockSamples :
             WorkerIdle(k, t2)
             => \A i \in 1 .. Len(last_drain') :
                   last_drain'[i] = "EXECUTED"
                   => IsRecorded(queued_trades[i].signal.symbol,
                                 RecordOf(queued_trades[i]), now')]_vars

\* C5: in the signal pipeline len(active_positions) <= MAX_POSITIONS in every
\* reachable state.
C5_PositionLimit == Cardinality(DOMAIN active_positions) <= MAX_POSITIONS

C5_Witness ==
    /\ Cardinality(DOMAIN active_positions) = MAX_POSITIONS
    /\ tr_ret = [status |-> "REJECTED",
                 result |-> <<"Maximum positions limit ({}) reached", MAX_POSITIONS>>]

\* C6: len(daily_trades[today]) never exceeds MAX_DAILY_TRADES, and once
\* MAX_DAILY_TRADES trades are recorded today can_enter_trade returns
\* (False, "Maximum daily trades limit (N) reached") for every symbol,
\* direction and cost.
C6_DailyLimit ==
    /\ \A d \in Days : Len(daily_trades[d]) <= MAX_DAILY_TRADES
    /\ Len(daily_trades[today(now)]) = MAX_DAILY_TRADES
         => \A symbol \in Symbols, direction \in Directions, sp \in Spreads :
               /\ can_enter_trade(symbol, direction, 0, now)
                    = Rejected("Maximum daily trades limit ({}) reached", MAX_DAILY_TRADES)
               /\ can_enter_trade(symbol, direction, sp.cost, now)
                    = Rejected("Maximum daily trades limit ({}) reached", MAX_DAILY_TRADES)

C6_Witness ==
    /\ Len(daily_trades[today(now)]) = MAX_DAILY_TRADES
    /\ Cardinality(DOMAIN active_positions) < MAX_POSITIONS
    /\ tr_ret = [status |-> "REJECTED",
                 result |-> <<"Maximum daily trades limit ({}) reached",
                              MAX_DAILY_TRADES>>]

\* C7: the exposure of every sector never exceeds
\* account_value * MAX_SECTOR_EXPOSURE.
C7_SectorExposureLimit ==
    \A sector \in DOMAIN sector_exposure :
        sector_exposure[sector] * 100 <= net_liquidation * MAX_SECTOR_EXPOSURE_PCT

\* C8: portfolio heat never exceeds MAX_PORTFOLIO_HEAT, also right after an
\* admitted trade has been recorded.
C8_PortfolioHeatLimit == ~heat_above(active_positions, MAX_PORTFOLIO_HEAT)

\* C9: execute_trade attempts an order (EXECUTED or FAILED) only if at the
\* moment of the call the market is open and the exchange time is at or
\* after the cutoff hour or inside the enabled late-day window; in every
\* other case it returns QUEUED and appends exactly one QueuedTrade at the
\* tail of the queue.
C9_ExecuteOnlyInWindow ==
    [][\A sp \in Spreads :
          (WorkerSignal(sp) /\ tr_ret'.status \in {"EXECUTED", "FAILED", "QUEUED"})
          => /\ tr_ret'.status \in {"EXECUTED", "FAILED"} => in_execution_window(now)
             /\ ~in_execution_window(now)
                  => /\ tr_ret'.status = "QUEUED"
                     /\ Len(queued_trades') = Len(queued_trades) + 1
                     /\ SubSeq(queued_trades', 1, Len(queued_trades)) = queued_trades
                     /\ queued_trades'[Len(queued_trades')].signal = Head(signal_queue)
                     /\ queued_trades'[Len(queued_trades')].spread = sp]_vars

\* the queued trades whose retry did not return EXECUTED, in queue order
RECURSIVE Kept(_, _)
Kept(q, statuses) ==
    IF q = <<>> \/ statuses = <<>> THEN q
    ELSE IF Head(statuses) = "EXECUTED" THEN Kept(Tail(q), Tail(statuses))
    ELSE <<Head(q)>> \o Kept(Tail(q), Tail(statuses))

\* C10: a drain pass inside the execution window retries every queued trade
\* and removes exactly those whose retry returned EXECUTED, the others
\* staying queued; a pass outside the window attempts nothing and leaves the
\* queue unchanged; a priced trade queued at 13:00 is executed and removed by
\* a pass at 15:01.
C10_DrainPass ==
    [][\A k \in 0 .. MaxQueue, t2 \in ClockSamples :
          WorkerIdle(k, t2)
          => IF in_execution_window(now)
             THEN /\ Len(last_drain') = Len(queued_trades)
                  /\ SubSeq(queued_trades', 1, Len(Kept(queued_trades, last_drain')))
                       = Kept(queued_trades, last_drain')
                  /\ \A i \in 1 .. Len(queued_trades) :
                        (i <= k /\ queued_trades[i].spread.priced)
                        => /\ last_drain'[i] = "EXECUTED"
                           /\ ~InSeq(queued_trades[i], queued_trades')
             ELSE /\ queued_trades' = queued_trades
                  /\ last_drain' = <<>>
                  /\ successful_trades' = successful_trades]_vars

\* the admission checks of can_enter_trade in the order of the listing, each
\* with its own condition and the reason it rejects with
admission_checks(symbol, direction, cost_per_contract, t) ==
    <<[failed |-> Len(daily_trades[today(t)]) >= MAX_DAILY_TRADES,
       reason |-> <<"Maximum daily trades limit ({}) reached", MAX_DAILY_TRADES>>],
      [failed |-> Cardinality(DOMAIN active_positions) >= MAX_POSITIONS,
       reason |-> <<"Maximum positions limit ({}) reached", MAX_POSITIONS>>],
      [failed |-> \E s \in DOMAIN active_positions :
                     s = symbol /\ active_positions[s].direction = direction,
       reason |-> <<"Already have a position", 0>>],
      [failed |-> heat_at_least(active_positions, MAX_PORTFOLIO_HEAT),
       reason |-> <<"Maximum portfolio heat reached", MAX_PORTFOLIO_HEAT>>],
      [failed |-> /\ has_fundamentals
                  /\ (exposure_get(sector_exposure, SectorOf(symbol)) + cost_per_contract) * 100
                       > net_liquidation * MAX_SECTOR_EXPOSURE_PCT,
       reason |-> <<"Sector exposure limit reached", 0>>],
      [failed |-> /\ has_fundamentals
                  /\ (exposure_get(industry_exposure, IndustryOf(symbol)) + cost_per_contract)
                         * 100
                       > net_liquidation * MAX_INDUSTRY_EXPOSURE_PCT,
       reason |-> <<"Industry exposure limit reached", 0>>],
      [failed |-> bias_exceeded(active_positions, direction),
       reason |-> <<"Maximum exposure bias reached", 0>>],
      [failed |-> available_funds < MIN_BUYING_POWER,
       reason |-> <<"Insufficient buying power", 0>>]>>

\* the costs of the trades proposed to can_enter_trade
ProposedCosts == {0, 300, 40000, 50000}

\* C11: when a proposed trade violates several admission limits at once,
\* can_enter_trade rejects it with the reason of the violated check that
\* comes first in the order daily trades, open positions, same-direction
\* position, portfolio heat, sector, industry, directional bias, buying
\* power; a trade violating none is allowed.
C11_FirstFailingCheck ==
    \A symbol \in Symbols, direction \in Directions, cost \in ProposedCosts :
        LET checks == admission_checks(symbol, direction, cost, now)
            failing == {i \in 1 .. Len(checks) : checks[i].failed}
            r == can_enter_trade(symbol, direction, cost, now)
        IN  IF failing = {} THEN r = Allowed
            ELSE \E i \in failing :
                    /\ \A j \in failing : i <= j
                    /\ r = [allowed |-> FALSE, reason |-> checks[i].reason]

\* a proposed trade is over the portfolio heat, the sector and the industry
\* limit at once, passes the three checks before them, and is rejected for
\* the heat
C11_Witness ==
    \E symbol \in Symbols, direction \in Directions, cost \in ProposedCosts :
        LET checks == admission_checks(symbol, direction, cost, now)
        IN  /\ {i \in 1 .. Len(checks) : checks[i].failed} = {4, 5, 6}
            /\ can_enter_trade(symbol, direction, cost, now)
                 = Rejected("Maximum portfolio heat reached", MAX_PORTFOLIO_HEAT)

\* C12: record_trade(symbol, direction, contracts, spread) of an admitted
\* trade immediately followed by close_position(symbol) restores
\* active_positions, sector_exposure and industry_exposure.
C12_CloseInvertsRecord ==
    \A symbol \in Symbols, direction \in Directions, spread \in Spreads :
        can_enter_trade(symbol, direction, 0, now).allowed
        => LET rec == record_trade(symbol, direction,
                                   calculate_position_size(spread.cost), spread, now)
           IN  position_closed(rec[2], rec[3], rec[4], symbol)
                 = <<active_positions, sector_exposure, industry_exposure>>

\* the trade of the record_trade call in progress is in today's daily_trades
\* but not yet in active_positions, or in active_positions but not yet counted
\* in the exposure of its sector
half_recorded ==
    \/ rt_pc = "appended"
    \/ rt_pc \in {"inserted", "fundamentals"} /\ get_sector(rt_trade.symbol) # NoneVal

\* C13: record_trade is atomic with respect to other threads: no reader on
\* another thread observes a state in which the trade is in today's
\* daily_trades but not yet in active_positions, or in active_positions but
\* not yet counted in the sector and industry exposure, and no broker call is
\* made while the update is in progress.
C13_RecordTradeAtomic ==
    /\ metrics # NoMetrics => ~half_recorded
    /\ rt_pc # "fundamentals"

\* C14: on every tick of the signal worker, whether or not a signal was
\* dequeued in it, the worker attempts to drain the queued trades: a tick
\* inside the execution window retries every queued trade.
C14_DrainEveryTick ==
    [][/\ \A k \in 0 .. MaxQueue, t2 \in ClockSamples :
             (WorkerIdle(k, t2) /\ is_valid_execution_time(datetime_now(now)))
             => Len(last_drain') = Len(queued_trades)
       /\ \A option_spread \in Spreads \cup {NoSpread} :
             (WorkerSignal(option_spread) /\ is_valid_execution_time(datetime_now(now')))
             => Len(last_drain') = Len(queued_trades)]_vars

\* the threads that are inside _process_signals_thread
Running == {w \in Threads : worker_pc[w] \in {"loop", "waiting", "processing"}}

\* C15: signals are processed by at most one worker at a time, in the order
\* in which they were enqueued, each at most once, for any sequence of
\* start, stop and scan calls.
C15_OneWorkerInOrder ==
    /\ Cardinality(Running) <= 1
    /\ \A i, j \in 1 .. Len(processed) : i < j => processed[i] < processed[j]

\* the position of the first element of seq equal to x, 0 when there is none
FirstIndex(x, seq) ==
    IF InSeq(x, seq) THEN CHOOSE i \in 1 .. Len(seq) :
                             seq[i] = x /\ \A j \in 1 .. (i - 1) : seq[j] # x
    ELSE 0

\* C16: within one drain pass the queued trades are retried in the order in
\* which they were enqueued (the clock only moving forward, a priced trade
\* is executed and removed whenever a priced trade behind it is), and the
\* trades that remain queued keep their relative order.
C16_DrainInQueueOrder ==
    [][\A k \in 0 .. MaxQueue, t2 \in ClockSamples :
          (WorkerIdle(k, t2) /\ is_valid_execution_time(datetime_now(now)))
          => \A i, j \in 1 .. Len(queued_trades) :
                i < j
                => /\ (queued_trades[i].spread.priced /\ ~InSeq(queued_trades[j], queued_trades'))
                        => ~InSeq(queued_trades[i], queued_trades')
                   /\ (InSeq(queued_trades[i], queued_trades')
                          /\ InSeq(queued_trades[j], queued_trades'))
                        => FirstIndex(queued_trades[i], queued_trades')
                             < FirstIndex(queued_trades[j], queued_trades')]_vars

\* a pass over two queued trades during which the window closed: the first
\* was executed and removed, the second stays queued behind the unpriced ones
C16_Witness ==
    /\ Len(last_drain) >= 2
    /\ last_drain[1] = "EXECUTED"
    /\ last_drain[Len(last_drain)] = "QUEUED"
    /\ queued_trades # <<>>

\* C17: for spread_cost > 0 the position size the pipeline obtains from
\* calculate_position_size(account_value, spread_cost) equals
\* min(MAX_CONTRACTS_PER_TRADE, floor(account_value * RISK_PER_TRADE / spread_cost)),
\* which is 0 when that floor is 0 and at least 1 otherwise.
C17_PositionSize ==
    ps_size # NoSize
    => LET contracts == ((net_liquidation * RISK_PER_TRADE_PCT) \div 100) \div ps_cost
       IN  ps_size = IF contracts < MAX_CONTRACTS_PER_TRADE
                     THEN contracts ELSE MAX_CONTRACTS_PER_TRADE

\* C18: while a breaker is tripped and now < reset_time no ErrorHandler
\* operation clears tripped or changes its reset_time; a breaker leaves
\* TRIPPED only by the reset taken when now >= reset_time.
C18_OnlyTimedReset ==
    [][\A c \in BreakerComponents :
          circuit_breakers[c].tripped
          => /\ eh_now < circuit_breakers[c].reset_time
                  => circuit_breakers'[c] = circuit_breakers[c]
             /\ circuit_breakers'[c] # circuit_breakers[c]
                  => /\ eh_now >= circuit_breakers[c].reset_time
                     /\ eh_ret'.op = "check_circuit_breakers"
                     /\ ~circuit_breakers'[c].tripped]_vars

\* check_circuit_breakers ran on a breaker tripped at 0 before its reset_time
\* and reset nothing
C18_Witness ==
    /\ circuit_breakers["IBKR_API"].tripped
    /\ eh_now < circuit_breakers["IBKR_API"].reset_time
    /\ eh_ret = EhRet("check_circuit_breakers", NoneVal, FALSE, "")

\* C19: handle_error dispatches a recovery only while recovery_attempts of
\* the key is below MAX_RECOVERY_ATTEMPTS, so recovery_attempts never exceeds
\* it; once the maximum is reached, handle_error on an untripped component
\* returns "Max recovery attempts reached" without dispatching.
C19_MaxReachedReported ==
    [][\A c \in Components, e \in ErrorTypes :
          IsHandleError(c, e)
          => /\ recovery_attempts'[<<c, e>>] <= MAX_RECOVERY_ATTEMPTS
             /\ recovery_attempts'[<<c, e>>] # recovery_attempts[<<c, e>>]
                  => recovery_attempts[<<c, e>>] < MAX_RECOVERY_ATTEMPTS
             /\ (recovery_attempts[<<c, e>>] = MAX_RECOVERY_ATTEMPTS /\ ~breaker_active(c))
                  => /\ eh_ret'.msg = "Max recovery attempts reached"
                     /\ recovery_attempts' = recovery_attempts]_vars

\* C19 amended: as above, but a call with a critical error kind whose count
\* has reached CIRCUIT_BREAKER_THRESHOLD returns "Circuit breaker tripped"
\* instead, also without dispatching.
C19_MaxReachedUnlessTrip ==
    [][\A c \in Components, e \in ErrorTypes :
          IsHandleError(c, e)
          => /\ recovery_attempts'[<<c, e>>] <= MAX_RECOVERY_ATTEMPTS
             /\ recovery_attempts'[<<c, e>>] # recovery_attempts[<<c, e>>]
                  => recovery_attempts[<<c, e>>] < MAX_RECOVERY_ATTEMPTS
             /\ (recovery_attempts[<<c, e>>] = MAX_RECOVERY_ATTEMPTS /\ ~breaker_active(c))
                  => /\ recovery_attempts' = recovery_attempts
                     /\ eh_ret'.msg =
                          IF is_critical_error(e)
                             /\ error_counts'[<<c, e>>] >= CIRCUIT_BREAKER_THRESHOLD
                          THEN "Circuit breaker tripped"
                          ELSE "Max recovery attempts reached"]_vars

\* the fourth REQUEST_ERROR of the untripped IBKR_API: three recoveries were
\* dispatched and the call returned "Max recovery attempts reached"
C19_Witness ==
    /\ recovery_attempts[<<"IBKR_API", "REQUEST_ERROR">>] = MAX_RECOVERY_ATTEMPTS
    /\ error_counts[<<"IBKR_API", "REQUEST_ERROR">>] > MAX_RECOVERY_ATTEMPTS
    /\ ~circuit_breakers["IBKR_API"].tripped
    /\ eh_ret = EhRet("handle_error", "IBKR_API", FALSE, "Max recovery attempts reached")

\* C20: a handle_error call with a non-critical error kind never trips a
\* circuit breaker, however large the error count has become.
C20_NonCriticalNeverTrips ==
    [][\A c \in Components, e \in ErrorTypes :
          (IsHandleError(c, e) /\ ~is_critical_error(e))
          => circuit_breakers' = circuit_breakers]_vars

\* REQUEST_ERROR of IBKR_API has reached CIRCUIT_BREAKER_THRESHOLD and the
\* breaker is not tripped
C20_Witness ==
    /\ error_counts[<<"IBKR_API", "REQUEST_ERROR">>] >= CIRCUIT_BREAKER_THRESHOLD
    /\ ~circuit_breakers["IBKR_API"].tripped
    /\ eh_ret.op = "handle_error"
    /\ error_counts[<<"IBKR_API", "CONNECTION_ERROR">>] = 0

\* whether current_price has moved past level in the position's favour
\* (at_or_past) or against it (at_or_behind)
at_or_past(pos, current_price, level) ==
    IF pos.direction = "LONG" THEN current_price >= level ELSE current_price <= level

at_or_behind(pos, current_price, level) ==
    IF pos.direction = "LONG" THEN current_price <= level ELSE current_price >= level

\* the exit conditions in their order of priority, each with its reason
exit_conditions(pos, current_price, days_to_expiry) ==
    LET stop_level == IF pos.stop_price = NoPrice
                THEN calculate_stop_loss(pos.entry_price, pos.direction)
                ELSE pos.stop_price
        r_move == abs(pos.entry_price - stop_level) * R_MULTIPLE_TARGET
        r_target == IF pos.direction = "LONG" THEN pos.entry_price + r_move
                                              ELSE pos.entry_price - r_move
        extreme == IF pos.direction = "LONG" THEN get_highest_price(pos)
                                             ELSE get_lowest_price(pos)
        trail == IF pos.direction = "LONG" THEN 100 - TRAILING_STOP_PERCENTAGE
                                           ELSE 100 + TRAILING_STOP_PERCENTAGE
    IN << [holds |-> pos.stop_price # NoPrice
                       /\ at_or_behind(pos, current_price, pos.stop_price),
           reason |-> "Stop loss triggered"],
          [holds |-> pos.target_price # NoPrice
                       /\ at_or_past(pos, current_price, pos.target_price),
           reason |-> "Profit target reached"],
          [holds |-> days_to_expiry <= MIN_DAYS_TO_EXPIRY,
           reason |-> "Position close to expiry"],
          [holds |-> USE_R_MULTIPLE_EXIT /\ at_or_past(pos, current_price, r_target),
           reason |-> "R-multiple target reached"],
          [holds |-> USE_TRAILING_STOP
                       /\ IF pos.direction = "LONG"
                          THEN current_price * 100 <= extreme * trail
                          ELSE current_price * 100 >= extreme * trail,
           reason |-> "Trailing stop triggered"] >>

\* the conditions that hold
exit_hits(pos, current_price, days_to_expiry) ==
    {i \in 1 .. 5 : exit_conditions(pos, current_price, days_to_expiry)[i].holds}

\* C21: should_exit_position returns the reason of the first condition that
\* holds in the order stop-loss, profit target, minimum days to expiry,
\* R-multiple target (if enabled), trailing stop (if enabled), and returns
\* (False, ...) only when none of them holds.
C21_FirstExitCondition ==
    [][LET current_price == exit_ret'.current_price
           days_to_expiry == exit_ret'.days_to_expiry
       IN (/\ current_price \in PriceSamples
           /\ should_exit_position_call(current_price, days_to_expiry))
          => LET hits == exit_hits(open_position, current_price, days_to_expiry)
                 first == CHOOSE i \in hits : \A j \in hits : i <= j
             IN IF hits = {}
                THEN ~exit_ret'.exit
                ELSE /\ exit_ret'.exit
                     /\ exit_ret'.reason
                          = exit_conditions(open_position, current_price,
                                            days_to_expiry)[first].reason]_vars

\* the call returned "Profit target reached" at a price and a day at which
\* the expiry and the R-multiple conditions hold as well
C21_Witness ==
    /\ exit_ret.exit
    /\ exit_ret.reason = "Profit target reached"
    /\ {2, 3, 4} \subseteq exit_hits(open_position, exit_ret.current_price,
                                     exit_ret.days_to_expiry)

\* C22: over any sequence of observed prices the highest_price of a LONG
\* position and its trailing stop level highest_price * (1 - trail_pct)
\* never decrease, and the lowest_price of a SHORT position never increases.
C22_TrailingMonotone ==
    [][/\ open_position.direction = "LONG"
          => /\ get_highest_price(open_position')
                  >= get_highest_price(open_position)
             /\ get_highest_price(open_position') * (100 - TRAILING_STOP_PERCENTAGE)
                  >= get_highest_price(open_position) * (100 - TRAILING_STOP_PERCENTAGE)
             /\ open_position.trailing_stop # NoPrice
                  => open_position'.trailing_stop >= open_position.trailing_stop
       /\ open_position.direction = "SHORT"
          => get_lowest_price(open_position') <= get_lowest_price(open_position)]_vars

\* a LONG position whose high of 200 was kept while a later, lower price
\* triggered the trailing stop against it
C22_Witness ==
    /\ open_position.direction = "LONG"
    /\ open_position.highest_price = 200
    /\ exit_ret.current_price < 200
    /\ exit_ret.reason = "Trailing stop triggered"

\* C23: when the broker call an admission check depends on fails (here the
\* sector/industry lookup of get_sector_industry), can_enter_trade rejects
\* the trade instead of skipping the check: no signal processed while the
\* lookup fails gets past the admission check.
C23_FailsClosed ==
    ~has_fundamentals
    => /\ tr_ret.status \notin {"EXECUTED", "QUEUED"}
       /\ tr_ret.status = "REJECTED"
            => tr_ret.result # <<"No suitable option spread found", 0>>

\* C24: with an alert system configured, every rejection can_enter_trade
\* returns has sent an alert that carries a severity.
C24_NoSilentRejection ==
    (/\ alert_system
     /\ tr_ret.status = "REJECTED"
     /\ tr_ret.result # <<"No suitable option spread found", 0>>)
    => /\ sent_alerts # <<>>
       /\ \A i \in DOMAIN sent_alerts :
             sent_alerts[i].severity \in {"INFO", "WARNING", "HIGH", "CRITICAL"}

\* the predicates of the filter, one entry for each
filter_predicates(spread, underlying_data) ==
    << spread.dte >= min_dte /\ spread.dte <= max_dte,
       abs(spread.delta) >= min_delta /\ abs(spread.delta) <= max_delta,
       spread.cost <= max_spread_cost /\ spread.reward_risk >= min_reward_risk
         /\ spread.cost > 0,
       /\ min2(spread.leg1_open_interest, spread.leg2_open_interest) >= min_open_interest
       /\ spread.leg1_ask # 0 /\ spread.leg2_ask # 0
       /\ (spread.leg1_ask - spread.leg1_bid) * 1000 <= max_bid_ask_spread_pct * spread.leg1_ask
       /\ (spread.leg2_ask - spread.leg2_bid) * 1000 <= max_bid_ask_spread_pct * spread.leg2_ask,
       /\ underlying_data.iv_rank >= min_iv_rank /\ underlying_data.iv_rank <= max_iv_rank
       /\ underlying_data.call_put_skew >= min_call_put_skew_pct,
       /\ abs(spread.theta) <= max_theta_per_day
       /\ abs(spread.vega) <= max_vega_exposure
       /\ abs(spread.gamma) <= max_gamma_exposure,
       /\ spread.probability_of_profit >= min_prob_of_profit
       /\ \/ underlying_data.expected_move = 0
          \/ abs(spread.leg1_strike - spread.leg2_strike) * 100
               <= max_width_vs_move_pct * underlying_data.expected_move,
       /\ underlying_data.days_to_earnings \notin 0 .. days_before_earnings
       /\ underlying_data.days_to_ex_div \notin 0 .. days_before_ex_div >>

\* the predicates a spread fails
failed_predicates(spread, underlying_data) ==
    {i \in 1 .. 8 : ~filter_predicates(spread, underlying_data)[i]}

\* C25: filter_spreads returns exactly the candidates that satisfy every
\* filter predicate, in their input order.
C25_ExactConjunction ==
    spread_ret.op = "filter_spreads"
    => spread_ret.result
         = SelectSeq(candidates,
                     LAMBDA spread : failed_predicates(spread, underlying) = {})

\* C26: no spread with cost <= 0 is in the list filter_spreads returns.
C26_NoNonPositiveCost ==
    spread_ret.op = "filter_spreads"
    => \A i \in DOMAIN spread_ret.result : spread_ret.result[i].cost > 0

\* the spreads get_best_spread ranks: the filtered spreads of both strategy
\* types in the order they are appended
survivors == all_spreads_of(get_spread_candidates(candidates, underlying))

\* C27: get_best_spread returns None exactly when no candidate survives the
\* filtering; otherwise it returns the first, in insertion order, of the
\* survivors whose reward:risk ratio is maximal.
C27_BestSpread ==
    spread_ret.op = "get_best_spread"
    => /\ (spread_ret.result = <<>>) <=> (survivors = <<>>)
       /\ survivors # <<>>
          => \E i \in DOMAIN survivors :
                /\ spread_ret.result = <<survivors[i]>>
                /\ \A j \in DOMAIN survivors :
                      /\ survivors[j].reward_risk <= survivors[i].reward_risk
                      /\ j < i => survivors[j].reward_risk < survivors[i].reward_risk

\* three survivors, the last two different spreads with the same, maximal
\* ratio: the second was returned
C27_Witness ==
    /\ spread_ret.op = "get_best_spread"
    /\ Len(survivors) = 3
    /\ survivors[1].reward_risk < survivors[2].reward_risk
    /\ survivors[2].reward_risk = survivors[3].reward_risk
    /\ survivors[2] # survivors[3]
    /\ spread_ret.result = <<survivors[2]>>

\* the notional of the open positions in direction D
open_notional(D) ==
    SumOver([s \in DOMAIN active_positions |->
                IF active_positions[s].direction = D
                THEN active_positions[s].entry_price * active_positions[s].contracts * 100
                ELSE 0],
            DOMAIN active_positions)

\* the share of direction D in the total open notional, with a trade of
\* notional added in direction D counted in, is above MAX_DIRECTIONAL_BIAS
share_above(D, added) ==
    LET mine == open_notional(D) + added
        total == open_notional("LONG") + open_notional("SHORT") + added
    IN total > 0 /\ mine * 100 > MAX_DIRECTIONAL_BIAS_PCT * total

\* the notional a new trade adds
NewNotionals == {sp.cost * calculate_position_size(sp.cost) * 100 : sp \in Spreads}

C29_ConnectBounded ==
    /\ [](attempt <= 3 /\ failures <= attempt)
    /\ [](elapsed <= 3 * CONNECT_TIMEOUT + 2 * RETRY_SLEEP)
    /\ []((conn_pc = "returned" /\ failures = 3)
           => (conn_ret = "False" /\ ~connected))
    /\ [](conn_pc = "returned" => conn_ret \in {"True", "False"})
    /\ (conn_pc = "attempt") ~> (conn_pc = "returned")

\* all three attempts raised, each at its timeout, with the two sleeps
\* between them, and connect() returned False
C29_Witness ==
    /\ conn_pc = "returned"
    /\ failures = 3
    /\ elapsed = 3 * CONNECT_TIMEOUT + 2 * RETRY_SLEEP
    /\ conn_ret = "False"
    /\ ~connected

\* C30: a handle_error call for a component whose circuit breaker is tripped
\* leaves the error count of its (component, error kind) pair as it was.
C30_TrippedCallLeavesCount ==
    [][\A component \in Components, error_type \in ErrorTypes, has_ctx \in BOOLEAN :
          (breaker_active(component) /\ handle_error(component, error_type, has_ctx))
          => error_counts'[error_key(component, error_type)]
               = error_counts[error_key(component, error_type)]]_vars


(***************************************************************************)
(* C31: on a single day the trades that reach EXECUTED, whether at once    *)
(* or in a later drain pass, never exceed MAX_DAILY_TRADES.  Every run      *)
(* begins on Monday with no trade executed, so while it is still Monday    *)
(* (for the exchange and for the host) successful_trades counts the trades *)
(* executed on that day.                                                   *)
(***************************************************************************)
C31_ExecutedWithinDailyLimit ==
    (now < MinutesPerDay /\ today(now) = 0) => successful_trades <= MAX_DAILY_TRADES

\* the entries of the queue q that hold the signal of queued_trade
entries_for(q, queued_trade) ==
    {i \in 1 .. Len(q) : q[i].signal = queued_trade.signal}

\* C32: a drain pass never lengthens the queue and never adds a second entry
\* for a trade that is already queued, also when the execution window closes
\* while the pass is in progress.
C32_DrainNeverGrowsQueue ==
    [][\A k \in 0 .. MaxQueue, t2 \in ClockSamples :
          WorkerIdle(k, t2)
          => /\ Len(queued_trades') <= Len(queued_trades)
             /\ \A i \in 1 .. Len(queued_trades) :
                   Cardinality(entries_for(queued_trades', queued_trades[i]))
                     <= Cardinality(entries_for(queued_trades, queued_trades[i]))]_vars

\* cost * contracts * 100 summed over the active positions whose symbol the
\* classification classify puts under key
exposure_of_positions(classify(_), key) ==
    LET members == {s \in DOMAIN active_positions : classify(s) = key}
    IN  SumOver([s \in members |->
                    active_positions[s].spread.cost * active_positions[s].contracts * 100],
                members)

\* C33: in every reachable state the exposure total of each sector and of
\* each industry equals the sum of cost * contracts * 100 over the positions
\* in active_positions that belong to it, also after a trade was recorded for
\* a symbol that held a position in the opposite direction.
C33_ExposureIsSumOfPositions ==
    /\ \A symbol \in Symbols :
          exposure_get(sector_exposure, SectorOf(symbol))
            = exposure_of_positions(get_sector, SectorOf(symbol))
    /\ \A symbol \in Symbols :
          exposure_get(industry_exposure, IndustryOf(symbol))
            = exposure_of_positions(get_industry, IndustryOf(symbol))

\* C34: after a breaker was reset following its cooldown it takes
\* CIRCUIT_BREAKER_THRESHOLD further critical errors of one kind to trip it
\* again: the handle_error call that directly follows the
\* check_circuit_breakers call that reset the breaker does not trip it.
C34_NoRetripOnSingleError ==
    [][\A component \in BreakerComponents, error_type \in ErrorTypes, has_ctx \in BOOLEAN :
          (/\ eh_ret.op = "check_circuit_breakers" /\ eh_ret.ok
           /\ ~circuit_breakers[component].tripped
           /\ handle_error(component, error_type, has_ctx))
          => ~circuit_breakers'[component].tripped]_vars

\* C35: cancel_order on the ib_insync broker always returns, also when an
\* order-status, execution or commission event is delivered while it waits
\* for the confirmation: a call that entered its confirmation loop returns.
C35_CancelAlwaysReturns ==
    (cancel_pc = "sleep") ~> (cancel_pc = "returned")

\* C36: immediately after record_trade, for LONG and SHORT positions alike,
\* RiskManager.should_exit_position at a current price equal to the entry
\* price reports neither a stop-loss nor a profit-target exit: the recorded
\* stop and target lie strictly on opposite sides of the entry price (LONG:
\* stop < entry < target; SHORT: target < entry < stop).
C36_StopAndTargetBracketEntry ==
    open_position.stop_price # NoPrice
    => /\ \A days_to_expiry \in DaysSamples :
             RiskManager_should_exit_position(open_position, open_position.entry_price,
                                              days_to_expiry)[2]
               \notin {"Stop loss triggered", "Profit target reached"}
       /\ open_position.direction = "LONG"
          => /\ open_position.stop_price < open_position.entry_price
             /\ open_position.entry_price < open_position.target_price
       /\ open_position.direction = "SHORT"
          => /\ open_position.target_price < open_position.entry_price
             /\ open_position.entry_price < open_position.stop_price

\* C37: whenever handle_error has returned (False, "Circuit breaker tripped")
\* for a component, whatever its name, the breaker of that component is
\* tripped: until the breaker is reset can_use_component(component) returns
\* False.
C37_TrippedReturnMeansTripped ==
    (eh_ret.op = "handle_error" /\ eh_ret.msg = "Circuit breaker tripped")
    => /\ eh_ret.component \in DOMAIN circuit_breakers
       /\ circuit_breakers[eh_ret.component].tripped

\* C38: when run_scan_cycle leaves its wait before the 5-minute timeout and
\* collects the status it returns, every signal the scan has queued has
\* been completely processed by a worker: none is still in the queue and
\* none has been dequeued without its processing being over.
C38_StatusAfterAllProcessed ==
    [][run_scan_cycle_collect(FALSE)
       => /\ signal_queue = <<>>
          /\ \A w \in Threads : held[w] = NoSignal
          /\ \A id \in 1..signals_made : \E i \in 1..Len(processed) : processed[i] = id]_vars

\* C39: in the simulated broker an order for which cancel_order returned
\* True keeps the status CANCELLED through every later step, and the fill
\* thread of such an order leaves the position quantity as it was.
C39_CancelledStaysCancelled ==
    [][\A order_id \in cancel_true :
          /\ sim_orders'[order_id].status = "CANCELLED"
          /\ IBKRApi_simulate_order_fill(order_id) => sim_quantity' = sim_quantity]_vars
====
